---- MODULE Spec2Model ----
(***************************************************************************)
(* A model of the Voyager HIP-3 dashboard repository: the options fetcher  *)
(* (max pain, IV skew, its retry loops), the Gamma client's retry adapter, *)
(* the ETF flow streak, the dashboard script run, the TTL caches, the      *)
(* Polymarket probability extraction and the iCal parser.                  *)
(*                                                                         *)
(* Each component has its own specification (SpecFetch, SpecStreak, ...):  *)
(* its Init draws the component's inputs, its Next is the component's      *)
(* steps, and the variables of the other components stay at their idle     *)
(* values.                                                                 *)
(***************************************************************************)
EXTENDS Integers, Sequences, FiniteSets, TLC

VARIABLES
    \* ---- external fetchers (src/src/options.py, src/src/api.py, GammaClient)
    req,          \* which fetcher the logical request runs
    pc,           \* position inside the fetcher
    attempts,     \* external call kind -> number of times it was attempted
    exps,         \* tk.options as last read: "unset", "empty" or "ok"
    calls,        \* opt_chain.calls: sequence of rows
    puts,         \* opt_chain.puts: sequence of rows
    spot,         \* spot price, or NaN
    result,       \* what the fetcher returned ("none" for None, "pending")
    retriesLeft   \* urllib3 Retry.total still available to the Gamma session

fetchVars == <<req, pc, attempts, exps, calls, puts, spot, result, retriesLeft>>

VARIABLES
    \* ---- ETF flow streak (src/app.py fetch_etf_data, src/ETF.py)
    etf_df,          \* the ticker's dataframe df: a sequence of rows
    streak_pc,       \* position inside the computation
    streak_values,   \* the list the loop appends to
    current_sign,    \* sign of the running streak (NoSign for None)
    current_streak   \* length of the running streak

streakVars == <<etf_df, streak_pc, streak_values, current_sign, current_streak>>

VARIABLES
    \* ---- one browser session of the dashboard script (src/app.py main)
    run_pc,            \* position of the current script run
    runs,              \* script runs started so far
    auto_refresh,      \* the sidebar checkbox
    clear_clicked,     \* the run was triggered by the "Clear Options Cache" button
    selected_symbols,  \* the multiselect's value
    all_data,          \* symbol -> entry, filled by the loading loop
    load_failed,       \* the symbols whose loading raised in this run
    rendered           \* the tabs rendered in this run, in order

runVars == <<run_pc, runs, auto_refresh, clear_clicked, selected_symbols,
             all_data, load_failed, rendered>>

VARIABLES
    \* ---- the st.cache_data caches of the fetchers (src/src/api.py, options.py)
    now,          \* the time, in seconds
    cache,        \* cache key -> [value, at]: the entries of the caches
    executions,   \* [fn, args] -> time of the last execution of the fetcher body
    ext_requests, \* the external requests sent so far
    last_call,    \* the last call of a cached fetcher and what it returned
    steps         \* calls and clock advances so far

cacheVars == <<now, cache, executions, ext_requests, last_call, steps>>

VARIABLES
    \* ---- extract_yes_probability (src/polymarket_price_predictions.py, src/app.py)
    market,       \* the market dictionary: its outcomes and outcomePrices fields
    yes_pc,       \* "call" before the call, "done" after it
    yes_result    \* what extract_yes_probability returned

yesVars == <<market, yes_pc, yes_result>>

VARIABLES
    \* ---- parse_ics_events (src/macro_events.py)
    ics_text,     \* the calendar text, as the lines str.splitlines() gives
    ics_pc,       \* "call" before the call, "done" after it
    ics_result    \* the rows parse_ics_events returned, or that it raised

icsVars == <<ics_text, ics_pc, ics_result>>

VARIABLES
    \* ---- pull_fomc_meetings and pull_all_macro_events (src/macro_events.py)
    fomc_sections,  \* year -> the "YYYY FOMC Meetings" section of the page
    fomc_range,     \* [start_d, end_d]
    fomc_pc,        \* "call" before the call, "done" after it
    meetings,       \* the list the scan appends to
    fomc_df         \* the rows pull_fomc_meetings returned

fomcVars == <<fomc_sections, fomc_range, fomc_pc, meetings, fomc_df>>

VARIABLES
    \* ---- fetch_prices_strict (src/macro_panel.py)
    panel_i,       \* the entries of the panel downloaded so far
    downloads,     \* what yf.download returned for them, in order
    panel_out,     \* the dictionary out: label -> close series, in insertion order
    panel_result   \* the table returned, or the exception raised

panelVars == <<panel_i, downloads, panel_out, panel_result>>

VARIABLES
    \* ---- the Polymarket tab for one ticker (src/app.py:1006-1500)
    poly_today,     \* today: the time of the run, in hours
    all_events,     \* the search results for the ticker, in order
    poly_pc,        \* position in the tab: "filter", "llm", "display", "done"
    poly_i,         \* the unique events looked at so far
    future_events,  \* the full events kept for the ticker
    llm_enabled,    \* the LLM filtering checkbox
    llm_result,     \* llm_results.get(ticker)
    poly_shown      \* what the tab showed: the captions and the events

polyVars == <<poly_today, all_events, poly_pc, poly_i, future_events, llm_enabled, llm_result, poly_shown>>

VARIABLES
    \* ---- compute_derivatives_metrics and the sentiment card (src/src/derivatives.py, src/app.py)
    funding_hist,    \* funding_df: rows of time (s) and funding_rate (1e-7), or NaN
    deriv_pc,        \* "call", "card", "done"
    deriv_metrics,   \* the DerivativesMetrics returned
    sentiment_card   \* the card the Funding tab shows

derivVars == <<funding_hist, deriv_pc, deriv_metrics, sentiment_card>>

VARIABLES
    \* ---- macro_events.py: pull_all_macro_events and the command line around it
    macro_parts,  \* the tables of the three sources, already cut to [start, end]
    save_args,    \* the --save-csv and --save-json arguments (given or not)
    macro_pc,     \* position of the command line: idle, call, print, save, done, raised
    macro_df,     \* what pull_all_macro_events returned
    stdout,       \* the lines printed
    files         \* the files written

macroVars == <<macro_parts, save_args, macro_pc, macro_df, stdout, files>>

VARIABLES
    \* ---- technicals.py: detect_cross_events and the cross card of the dashboard
    sma50,        \* the 50-candle moving average, one value per candle
    sma200,       \* the 200-candle moving average, one value per candle
    lookback,     \* the number of last candles examined
    cross_pc,     \* position: idle, call, card, done
    cross_flags,  \* the (golden, death) pair returned
    cross_card    \* the card shown by the dashboard

crossVars == <<sma50, sma200, lookback, cross_pc, cross_flags, cross_card>>

VARIABLES
    \* ---- technicals.py: compute_rsi
    rsi_close,   \* the closing prices, one per candle
    period,      \* the RSI period
    rsi_pc,      \* position: idle, call, done
    rsi_series   \* the series compute_rsi returned

rsiVars == <<rsi_close, period, rsi_pc, rsi_series>>

VARIABLES
    \* ---- app.py: the Market Index & Macro Event tab
    panel_failure,   \* the first ticker of PANEL whose download is unusable (0: none)
    fred_outcome,    \* what the FRED fetch meets: import_error, error at a series, no_rows, rows
    mtab_pc,         \* position in the tab: idle, call, branch, fred, fred_branch, done
    macro_prices,    \* the table fetch_macro_data returned: none, empty, frame
    fred_calls,      \* the number of calls of fetch_macro_event_data
    macro_event_df,  \* the table fetch_macro_event_data returned: none, empty, frame
    mtab_shown       \* the headers, errors and warnings written to the tab, in order

mtabVars == <<panel_failure, fred_outcome, mtab_pc, macro_prices, fred_calls, macro_event_df, mtab_shown>>

vars == <<fetchVars, streakVars, runVars, cacheVars, yesVars, icsVars, fomcVars, panelVars, polyVars, derivVars, macroVars, crossVars, rsiVars,
         mtabVars>>

\* the variables every step of a component leaves alone
notFetch == <<streakVars, runVars, cacheVars, yesVars, icsVars, fomcVars, panelVars, polyVars, derivVars, macroVars, crossVars, rsiVars, mtabVars>>
notStreak == <<fetchVars, runVars, cacheVars, yesVars, icsVars, fomcVars, panelVars, polyVars, derivVars, macroVars, crossVars, rsiVars, mtabVars>>
notRun == <<fetchVars, streakVars, cacheVars, yesVars, icsVars, fomcVars, panelVars, polyVars, derivVars, macroVars, crossVars, rsiVars, mtabVars>>
notCache == <<fetchVars, streakVars, runVars, yesVars, icsVars, fomcVars, panelVars, polyVars, derivVars, macroVars, crossVars, rsiVars, mtabVars>>
notYes == <<fetchVars, streakVars, runVars, cacheVars, icsVars, fomcVars, panelVars, polyVars, derivVars, macroVars, crossVars, rsiVars, mtabVars>>
notIcs == <<fetchVars, streakVars, runVars, cacheVars, yesVars, fomcVars, panelVars, polyVars, derivVars, macroVars, crossVars, rsiVars, mtabVars>>
notFomc == <<fetchVars, streakVars, runVars, cacheVars, yesVars, icsVars, panelVars, polyVars, derivVars, macroVars, crossVars, rsiVars, mtabVars>>
notPanel == <<fetchVars, streakVars, runVars, cacheVars, yesVars, icsVars, fomcVars, polyVars, derivVars, macroVars, crossVars, rsiVars, mtabVars>>
notPoly == <<fetchVars, streakVars, runVars, cacheVars, yesVars, icsVars, fomcVars, panelVars, derivVars, macroVars, crossVars, rsiVars, mtabVars>>
notDeriv == <<fetchVars, streakVars, runVars, cacheVars, yesVars, icsVars, fomcVars, panelVars, polyVars, macroVars, crossVars, rsiVars, mtabVars>>
notMacro == <<fetchVars, streakVars, runVars, cacheVars, yesVars, icsVars, fomcVars, panelVars, polyVars, derivVars, crossVars, rsiVars, mtabVars>>
notCross == <<fetchVars, streakVars, runVars, cacheVars, yesVars, icsVars, fomcVars, panelVars, polyVars, derivVars, macroVars, rsiVars, mtabVars>>
notRsi == <<fetchVars, streakVars, runVars, cacheVars, yesVars, icsVars, fomcVars, panelVars, polyVars, derivVars, macroVars, crossVars, mtabVars>>
notMtab == <<fetchVars, streakVars, runVars, cacheVars, yesVars, icsVars, fomcVars, panelVars, polyVars, derivVars, macroVars, crossVars, rsiVars>>

\* float("nan") / a missing dataframe cell: an integer no price, open interest,
\* volatility or sign of the model takes
NaN == -7

\* float("inf") (options.py:98): above every total pain of the model
Inf == 1000000

(***************************************************************************)
(* Bounds of the model.                                                    *)
(***************************************************************************)
NumStrikes == 3
MaxDays == 4
MaxSymbols == 2
MaxRuns == 3
MaxSteps == 4
MaxOutcomes == 2
MaxBlocks == 2
MaxFomcLines == 4
MaxEvents == 2
MaxFunding == 3
MaxSourceEvents == 2
MaxCandles == 4
MaxLookback == 3

(***************************************************************************)
(* Generic helpers.                                                        *)
(***************************************************************************)
RECURSIVE SetToSortedSeq(_)
\* sorted(set(...)): the elements of a finite set of integers, ascending
SetToSortedSeq(S) ==
    IF S = {} THEN <<>>
    ELSE LET m == CHOOSE x \in S : \A y \in S : x <= y
         IN <<m>> \o SetToSortedSeq(S \ {m})

RECURSIVE Gcd(_, _)
Gcd(a, b) == IF b = 0 THEN a ELSE Gcd(b, a % b)

Abs(x) == IF x < 0 THEN -x ELSE x

\* a rational number n/d in lowest terms with d > 0 (a python float result)
Rat(n, d) ==
    LET g == Gcd(Abs(n), Abs(d))
        s == IF d < 0 THEN -1 ELSE 1
    IN [n |-> s * (n \div g), d |-> s * (d \div g)]

Zero == Rat(0, 1)

RatSub(a, b) == Rat(a.n * b.d - b.n * a.d, a.d * b.d)

(***************************************************************************)
(* fetch_options_data (src/src/options.py).                                *)
(*                                                                         *)
(* Prices are integers; implied volatilities are integers (percent) and    *)
(* their means are exact rationals.  A chain side is a dataframe with one  *)
(* row per strike, ascending, as Yahoo delivers it.                        *)
(***************************************************************************)
StrikePrice(k) == 60 + 20 * k

Strikes == {StrikePrice(k) : k \in 1..NumStrikes}

\* (openInterest, impliedVolatility) of a row; either may be missing
Attrs == <<[oi |-> NaN, iv |-> 25], [oi |-> 2, iv |-> NaN]>>

RECURSIVE ChainOf(_, _)
ChainOf(f, k) ==
    IF k > NumStrikes THEN <<>>
    ELSE (IF f[k] = 0 THEN <<>>
          ELSE <<[strike |-> StrikePrice(k), openInterest |-> Attrs[f[k]].oi,
                  impliedVolatility |-> Attrs[f[k]].iv]>>)
         \o ChainOf(f, k + 1)

\* every chain side: each strike absent (0) or listed with one of the Attrs
Chains == {ChainOf(f, 1) : f \in [1..NumStrikes -> 0..Len(Attrs)]}

\* Series.fillna(0)
FillNa0(x) == IF x = NaN THEN 0 ELSE x

RECURSIVE Sum(_)
\* Series.sum()
Sum(series) ==
    IF series = <<>> THEN 0 ELSE Head(series) + Sum(Tail(series))

StrikeSet(df) == {df[i].strike : i \in 1..Len(df)}

\* float(df["impliedVolatility"].fillna(0).mean()) if not df.empty else 0
MeanIv(df) ==
    IF df = <<>> THEN Zero
    ELSE Rat(Sum([i \in 1..Len(df) |-> FillNa0(df[i].impliedVolatility)]), Len(df))

\* calls["strike"].median()
Median(df) ==
    LET s == SetToSortedSeq(StrikeSet(df))
        n == Len(s)
    IN IF n % 2 = 1 THEN s[(n + 1) \div 2]
       ELSE (s[n \div 2] + s[n \div 2 + 1]) \div 2

\* options.py:101-112: total_pain of one candidate strike
TotalPain(cs, ps, strike) ==
    LET itm_calls == SelectSeq(cs, LAMBDA r : r.strike < strike)
        itm_puts  == SelectSeq(ps, LAMBDA r : r.strike > strike)
        call_pain == Sum([i \in 1..Len(itm_calls) |->
                            (strike - itm_calls[i].strike)
                            * FillNa0(itm_calls[i].openInterest)])
        put_pain  == Sum([i \in 1..Len(itm_puts) |->
                            (itm_puts[i].strike - strike)
                            * FillNa0(itm_puts[i].openInterest)])
    IN call_pain + put_pain

\* the mutant of PainBelow: <= instead of <, so that a later tie wins
PainBelowOrEqual(total_pain, min_pain) ==
    total_pain <= min_pain

\* options.py:113
PainBelow(total_pain, min_pain) ==
    total_pain < min_pain

RECURSIVE MaxPainLoop(_, _, _, _, _, _)
\* options.py:100-115: the scan over the sorted strikes
MaxPainLoop(cs, ps, strikes, i, min_pain, max_pain_strike) ==
    IF i > Len(strikes) THEN max_pain_strike
    ELSE LET total_pain == TotalPain(cs, ps, strikes[i])
         IN IF PainBelow(total_pain, min_pain)
            THEN MaxPainLoop(cs, ps, strikes, i + 1, total_pain, strikes[i])
            ELSE MaxPainLoop(cs, ps, strikes, i + 1, min_pain, max_pain_strike)

\* options.py:93-115
MaxPain(cs, ps) ==
    LET strikes == SetToSortedSeq(StrikeSet(cs) \cup StrikeSet(ps))
    IN MaxPainLoop(cs, ps, strikes, 1, Inf, strikes[Len(strikes) \div 2 + 1])

\* spot > 0 (False for NaN)
Positive(s) == s # NaN /\ s > 0

\* the mutant of Skew: the difference taken the wrong way round
SkewSwapped(put_iv, call_iv) == RatSub(call_iv, put_iv)

\* options.py:133
Skew(put_iv, call_iv) == RatSub(put_iv, call_iv)

\* options.py:117-146: the dictionary fetch_options_data returns
OptionsResult(cs, ps, s) ==
    LET atm_calls == SelectSeq(cs, LAMBDA r : 100 * Abs(r.strike - s) < 5 * s)
        otm_puts  == SelectSeq(ps, LAMBDA r : 100 * r.strike < 95 * s)
        otm_calls == SelectSeq(cs, LAMBDA r : 100 * r.strike > 105 * s)
        put_iv    == IF Positive(s) THEN MeanIv(otm_puts) ELSE Zero
        call_iv   == IF Positive(s) THEN MeanIv(otm_calls) ELSE Zero
    IN [spot     |-> s,
        max_pain |-> MaxPain(cs, ps),
        atm_iv   |-> IF Positive(s) THEN MeanIv(atm_calls) ELSE Zero,
        put_iv   |-> put_iv,
        call_iv  |-> call_iv,
        skew_25d |-> IF Positive(s) THEN Skew(put_iv, call_iv) ELSE Zero]

(***************************************************************************)
(* The external calls of one logical request, with the number of times     *)
(* each is attempted.                                                      *)
(***************************************************************************)
CallKinds == {"yf_options", "yf_option_chain", "yf_history", "yf_info",
              "hl_post_info", "hl_funding_history", "pm_event_by_slug",
              "yf_download", "gamma_get"}

Requests == {"fetch_options_data", "post_info", "fetch_funding_history",
             "get_event_by_slug", "fetch_etf_data", "GammaClient.get"}

Attempt(kind) == attempts' = [attempts EXCEPT ![kind] = @ + 1]

Pending == [kind |-> "pending"]
ReturnNone == [kind |-> "none"]
Raised == [kind |-> "raise"]

\* the mutant of OptionsTries: one more pass of the loops
OptionsTriesThree == 2 + 1

\* options.py:43 and options.py:57: for _ in range(2)
OptionsTries == 2

\* polymarket_price_predictions.py:209: Retry(total=5)
RetryTotal == 5

\* polymarket_price_predictions.py:211: status_forcelist
StatusForcelist == {429, 500, 502, 503, 504}

FetchInit ==
    /\ req \in Requests
    /\ pc = "call"
    /\ attempts = [k \in CallKinds |-> 0]
    /\ exps = "unset"
    /\ calls = <<>>
    /\ puts = <<>>
    /\ spot = 0
    /\ result = Pending
    /\ retriesLeft = RetryTotal

\* options.py:35-39: the body starts (the cache decorator found no entry)
OptionsStart ==
    /\ req = "fetch_options_data" /\ pc = "call"
    /\ pc' = "exps"
    /\ UNCHANGED <<req, attempts, exps, calls, puts, spot, result, retriesLeft>>
    /\ UNCHANGED notFetch

\* options.py:42-51: one pass of the expirations loop, and the return after it
ReadExpirations ==
    /\ pc = "exps"
    /\ attempts["yf_options"] < OptionsTries
    /\ \E out \in {"raise", "empty", "ok"} :
         /\ Attempt("yf_options")
         /\ exps' = IF out = "raise" THEN exps ELSE out
         /\ IF out = "ok"
            THEN pc' = "chain" /\ result' = result
            ELSE IF attempts["yf_options"] + 1 < OptionsTries
                 THEN pc' = "exps" /\ result' = result
                 ELSE pc' = "done" /\ result' = ReturnNone
    /\ UNCHANGED <<req, calls, puts, spot, retriesLeft>>
    /\ UNCHANGED notFetch

\* options.py:56-70: one pass of the option-chain loop, and the returns after it
ReadOptionChain ==
    /\ pc = "chain"
    /\ attempts["yf_option_chain"] < OptionsTries
    /\ Attempt("yf_option_chain")
    /\ \E ok \in BOOLEAN :
         IF ok
         THEN \E cs \in Chains, ps \in Chains :
                /\ calls' = cs
                /\ puts' = ps
                /\ IF cs = <<>> /\ ps = <<>>
                   THEN pc' = "done" /\ result' = ReturnNone
                   ELSE pc' = "hist" /\ result' = result
         ELSE /\ UNCHANGED <<calls, puts>>
              /\ IF attempts["yf_option_chain"] + 1 < OptionsTries
                 THEN pc' = "chain" /\ result' = result
                 ELSE pc' = "done" /\ result' = ReturnNone
    /\ UNCHANGED <<req, exps, spot, retriesLeft>>
    /\ UNCHANGED notFetch

\* options.py:88-90: the last resort for the spot price
MedianFallback(s, cs) ==
    IF s = 0 /\ cs # <<>> THEN Median(cs) ELSE s

\* options.py:73-79 (and 88-90 when tk.info is not consulted)
ReadHistory ==
    /\ pc = "hist"
    /\ Attempt("yf_history")
    /\ \E close \in {0, 90, NaN} :
         \* close = 0 stands for an exception and for an empty history
         /\ spot' = close
         /\ pc' = IF close = 0 THEN "info" ELSE "compute"
    /\ UNCHANGED <<req, exps, calls, puts, result, retriesLeft>>
    /\ UNCHANGED notFetch

\* options.py:81-90
ReadInfo ==
    /\ pc = "info"
    /\ Attempt("yf_info")
    /\ \E price \in {0, 104} :
         \* price = 0 stands for an exception and for an info without a price
         spot' = MedianFallback(price, calls)
    /\ pc' = "compute"
    /\ UNCHANGED <<req, exps, calls, puts, result, retriesLeft>>
    /\ UNCHANGED notFetch

\* options.py:92-146
ComputeOptions ==
    /\ pc = "compute"
    /\ result' = [kind |-> "dict"] @@ OptionsResult(calls, puts, spot)
    /\ pc' = "done"
    /\ UNCHANGED <<req, attempts, exps, calls, puts, spot, retriesLeft>>
    /\ UNCHANGED notFetch

\* api.py:15-24: post_info
PostInfo ==
    /\ req = "post_info" /\ pc = "call"
    /\ Attempt("hl_post_info")
    /\ \E ok \in BOOLEAN :
         result' = IF ok THEN [kind |-> "json"] ELSE ReturnNone
    /\ pc' = "done"
    /\ UNCHANGED <<req, exps, calls, puts, spot, retriesLeft>>
    /\ UNCHANGED notFetch

\* api.py:114-146: fetch_funding_history_uncached
FundingHistory ==
    /\ req = "fetch_funding_history" /\ pc = "call"
    /\ Attempt("hl_funding_history")
    /\ \E ok \in BOOLEAN :
         result' = IF ok THEN [kind |-> "dataframe"] ELSE [kind |-> "empty_dataframe"]
    /\ pc' = "done"
    /\ UNCHANGED <<req, exps, calls, puts, spot, retriesLeft>>
    /\ UNCHANGED notFetch

\* app.py:1283-1297: get_event_by_slug of the dashboard (plain requests.get)
GetEventBySlug ==
    /\ req = "get_event_by_slug" /\ pc = "call"
    /\ Attempt("pm_event_by_slug")
    /\ \E ok \in BOOLEAN :
         result' = IF ok THEN [kind |-> "json"] ELSE ReturnNone
    /\ pc' = "done"
    /\ UNCHANGED <<req, exps, calls, puts, spot, retriesLeft>>
    /\ UNCHANGED notFetch

\* app.py:844-847: fetch_etf_data calls yf.download outside any try
EtfDownload ==
    /\ req = "fetch_etf_data" /\ pc = "call"
    /\ Attempt("yf_download")
    /\ \E ok \in BOOLEAN :
         result' = IF ok THEN [kind |-> "dataframe"] ELSE Raised
    /\ pc' = "done"
    /\ UNCHANGED <<req, exps, calls, puts, spot, retriesLeft>>
    /\ UNCHANGED notFetch

\* polymarket_price_predictions.py:203-250: one attempt of a GET through the
\* session's retry adapter; 0 stands for a connection error
GammaGet ==
    /\ req = "GammaClient.get" /\ pc = "call"
    /\ Attempt("gamma_get")
    /\ \E status \in {0, 200, 404} \cup StatusForcelist :
         IF (status = 0 \/ status \in StatusForcelist) /\ retriesLeft > 0
         THEN /\ retriesLeft' = retriesLeft - 1
              /\ pc' = pc
              /\ result' = result
         ELSE /\ retriesLeft' = retriesLeft
              /\ pc' = "done"
              \* r.raise_for_status(); return r.json()
              /\ result' = IF status = 200 THEN [kind |-> "json"] ELSE Raised
    /\ UNCHANGED <<req, exps, calls, puts, spot>>
    /\ UNCHANGED notFetch

FetchNext ==
    \/ OptionsStart
    \/ ReadExpirations
    \/ ReadOptionChain
    \/ ReadHistory
    \/ ReadInfo
    \/ ComputeOptions
    \/ PostInfo
    \/ FundingHistory
    \/ GetEventBySlug
    \/ EtfDownload
    \/ GammaGet

\* the other components before they run
FetchIdle ==
    /\ req = "none"
    /\ pc = "idle"
    /\ attempts = [k \in CallKinds |-> 0]
    /\ exps = "unset"
    /\ calls = <<>>
    /\ puts = <<>>
    /\ spot = 0
    /\ result = Pending
    /\ retriesLeft = RetryTotal

StreakIdle ==
    /\ etf_df = <<>>
    /\ streak_pc = "idle"
    /\ streak_values = <<>>
    /\ current_sign = NaN
    /\ current_streak = 0

RunIdle ==
    /\ run_pc = "idle"
    /\ runs = 0
    /\ auto_refresh = FALSE
    /\ clear_clicked = FALSE
    /\ selected_symbols = <<>>
    /\ all_data = <<>>
    /\ load_failed = {}
    /\ rendered = <<>>

NoCall == [fn |-> "none", args |-> "none", at |-> 0, executed |-> FALSE,
           prior |-> NaN, requests |-> 0, value |-> "none"]

CacheIdle ==
    /\ now = 0
    /\ cache = <<>>
    /\ executions = <<>>
    /\ ext_requests = 0
    /\ last_call = NoCall
    /\ steps = 0

\* python values: None, a number, a string, a list, a dictionary
PyNone == [t |-> "none"]
PyNum(v) == [t |-> "num", v |-> v]
PyStr(text) == [t |-> "str", s |-> text]
PyList(items) == [t |-> "list", v |-> items]
PyDict(keys) == [t |-> "dict", v |-> keys]
PyRaise == [t |-> "raise"]

YesIdle ==
    /\ market = [outcomes |-> PyNone, outcomePrices |-> PyNone]
    /\ yes_pc = "idle"
    /\ yes_result = PyNone

IcsIdle ==
    /\ ics_text = <<>>
    /\ ics_pc = "idle"
    /\ ics_result = [kind |-> "none"]

FomcIdle ==
    /\ fomc_sections = <<>>
    /\ fomc_range = [start_d |-> 0, end_d |-> 0]
    /\ fomc_pc = "idle"
    /\ meetings = <<>>
    /\ fomc_df = <<>>

PanelIdle ==
    /\ panel_i = 0
    /\ downloads = <<>>
    /\ panel_out = <<>>
    /\ panel_result = [kind |-> "none"]

PolyIdle ==
    /\ poly_today = 0
    /\ all_events = <<>>
    /\ poly_pc = "idle"
    /\ poly_i = 0
    /\ future_events = <<>>
    /\ llm_enabled = FALSE
    /\ llm_result = [kind |-> "none"]
    /\ poly_shown = [captions |-> {}, events |-> <<>>]

DerivIdle ==
    /\ funding_hist = <<>>
    /\ deriv_pc = "idle"
    /\ deriv_metrics = [kind |-> "none"]
    /\ sentiment_card = ""

MacroIdle ==
    /\ macro_parts = <<>>
    /\ save_args = [csv |-> FALSE, json |-> FALSE]
    /\ macro_pc = "idle"
    /\ macro_df = [kind |-> "none"]
    /\ stdout = <<>>
    /\ files = {}

CrossIdle ==
    /\ sma50 = <<>>
    /\ sma200 = <<>>
    /\ lookback = 0
    /\ cross_pc = "idle"
    /\ cross_flags = [kind |-> "none"]
    /\ cross_card = ""

RsiIdle ==
    /\ rsi_close = <<>>
    /\ period = 0
    /\ rsi_pc = "idle"
    /\ rsi_series = <<>>

MtabIdle ==
    /\ panel_failure = 0
    /\ fred_outcome = [kind |-> "rows", at |-> 0]
    /\ mtab_pc = "idle"
    /\ macro_prices = "none"
    /\ fred_calls = 0
    /\ macro_event_df = "none"
    /\ mtab_shown = <<>>

\* the components whose variables are declared above, at rest
OthersIdle == IcsIdle /\ FomcIdle /\ PanelIdle /\ PolyIdle /\ DerivIdle /\ MacroIdle /\ CrossIdle /\ RsiIdle /\ MtabIdle

InitFetch == FetchInit /\ StreakIdle /\ RunIdle /\ CacheIdle /\ YesIdle /\ OthersIdle

NextFetch == FetchNext

SpecFetch == InitFetch /\ [][NextFetch]_vars

(***************************************************************************)
(* Claims about the fetchers (SpecFetch).                                  *)
(***************************************************************************)
\* the pain of a strike K as the claim defines it, over all rows of the chain
ClaimedPain(K) ==
    Sum([i \in 1..Len(calls) |->
           IF calls[i].strike < K
           THEN (K - calls[i].strike) * FillNa0(calls[i].openInterest) ELSE 0])
    + Sum([i \in 1..Len(puts) |->
           IF puts[i].strike > K
           THEN (puts[i].strike - K) * FillNa0(puts[i].openInterest) ELSE 0])

ChainDelivered == pc = "done" /\ (calls # <<>> \/ puts # <<>>)

\* C1: for every options chain with at least one strike, max_pain is a strike of
\* the union of call and put strikes that minimizes the total pain, and the
\* lowest such strike when several tie.
C1_MaxPainIsLowestMinimizer ==
    ChainDelivered =>
        /\ result.kind = "dict"
        /\ LET S == StrikeSet(calls) \cup StrikeSet(puts)
               K == result.max_pain
           IN /\ K \in S
              /\ \A J \in S : ClaimedPain(K) <= ClaimedPain(J)
              /\ \A J \in S : ClaimedPain(J) = ClaimedPain(K) => K <= J

\* a chain where the minimum is shared by two strikes and missed by a third
C1_Witness ==
    /\ ChainDelivered
    /\ result.kind = "dict"
    /\ LET S == StrikeSet(calls) \cup StrikeSet(puts)
           K == result.max_pain
       IN /\ \E J \in S : J > K /\ ClaimedPain(J) = ClaimedPain(K)
          /\ \E J \in S : ClaimedPain(J) > ClaimedPain(K)
          /\ \E i \in 1..Len(calls) : calls[i].openInterest = NaN

ClaimedMeanIv(df, I) ==
    IF I = {} THEN Zero
    ELSE Rat(Sum([i \in 1..Len(df) |->
                    IF i \in I THEN FillNa0(df[i].impliedVolatility) ELSE 0]),
             Cardinality(I))

\* C9: skew_25d equals put_iv - call_iv of the same result, put_iv being the
\* mean implied volatility of the puts with strike < 0.95 * spot and call_iv
\* that of the calls with strike > 1.05 * spot (0 for an empty set), and all
\* three are 0 when no positive spot price could be determined.
C9_SkewIsPutMinusCall ==
    (pc = "done" /\ result.kind = "dict") =>
        LET s == result.spot
            otmP == {i \in 1..Len(puts) : 100 * puts[i].strike < 95 * s}
            otmC == {i \in 1..Len(calls) : 100 * calls[i].strike > 105 * s}
        IN IF s # NaN /\ s > 0
           THEN /\ result.put_iv = ClaimedMeanIv(puts, otmP)
                /\ result.call_iv = ClaimedMeanIv(calls, otmC)
                /\ result.skew_25d.n * result.put_iv.d * result.call_iv.d
                     = result.skew_25d.d
                       * (result.put_iv.n * result.call_iv.d
                          - result.call_iv.n * result.put_iv.d)
           ELSE /\ result.put_iv = Zero
                /\ result.call_iv = Zero
                /\ result.skew_25d = Zero

\* a result whose put and call means differ and are both non-zero
C9_Witness ==
    /\ pc = "done"
    /\ result.kind = "dict"
    /\ result.spot # NaN /\ result.spot > 0
    /\ result.put_iv # Zero
    /\ result.call_iv # Zero
    /\ result.skew_25d # Zero
    /\ result.call_iv.d > 1

\* the fallbacks found no spot price: the three values are 0
C9_WitnessNoSpot ==
    /\ pc = "done"
    /\ result.kind = "dict"
    /\ result.spot = 0
    /\ puts # <<>>

(***************************************************************************)
(* The ETF flow streak: fetch_etf_data (src/app.py:859-900), the same code *)
(* as fetch_and_process_data (src/ETF.py:38-91).                           *)
(***************************************************************************)
\* np.sign
Sign(x) == IF x = NaN THEN NaN ELSE IF x > 0 THEN 1 ELSE IF x < 0 THEN -1 ELSE 0

\* float multiplication: NaN when a factor is NaN
Mul(a, b) == IF a = NaN \/ b = NaN THEN NaN ELSE a * b

\* Series.diff()
Diff(series) ==
    [i \in 1..Len(series) |->
        IF i = 1 \/ series[i] = NaN \/ series[i - 1] = NaN
        THEN NaN ELSE series[i] - series[i - 1]]

\* Series.replace(v, method='ffill'): every cell equal to v takes the value of
\* the nearest earlier cell that is not v (NaN included); leading cells stay
ReplaceFfill(series, v) ==
    [i \in 1..Len(series) |->
        IF series[i] # v THEN series[i]
        ELSE LET J == {j \in 1..(i - 1) : series[j] # v}
             IN IF J = {} THEN v
                ELSE series[CHOOSE j \in J : \A k \in J : k <= j]]

\* Series.replace(v, method='bfill'): the same from the later cells
ReplaceBfill(series, v) ==
    [i \in 1..Len(series) |->
        IF series[i] # v THEN series[i]
        ELSE LET J == {j \in (i + 1)..Len(series) : series[j] # v}
             IN IF J = {} THEN v
                ELSE series[CHOOSE j \in J : \A k \in J : j <= k]]

\* Series.replace(v, w)
Replace(series, v, w) ==
    [i \in 1..Len(series) |-> IF series[i] = v THEN w ELSE series[i]]

Column(rows, name) == [i \in 1..Len(rows) |-> rows[i][name]]

\* app.py:859-872: the flow proxy and its sign
FlowColumns(rows) ==
    LET Close        == Column(rows, "Close")
        Volume       == Column(rows, "Volume")
        Price_Change == Diff(Close)
        Direction    == ReplaceFfill([i \in 1..Len(rows) |-> Sign(Price_Change[i])], 0)
        Daily_Flow   == [i \in 1..Len(rows) |->
                            Mul(Mul(Close[i], Volume[i]), Direction[i])]
        Sign0        == [i \in 1..Len(rows) |-> Sign(Daily_Flow[i])]
        Flow_Sign    == Replace(ReplaceBfill(ReplaceFfill(Sign0, 0), 0), 0, 1)
    IN [i \in 1..Len(rows) |->
          [Close |-> Close[i], Volume |-> Volume[i], Direction |-> Direction[i],
           Daily_Flow_Est |-> Daily_Flow[i], Flow_Sign |-> Flow_Sign[i],
           Streak |-> 0]]

\* current_sign = None
NoSign == NaN

\* the mutant of NextStreak: a change of sign does not restart the count
NextStreakNoReset(cur_sign, cur_streak, sign) ==
    IF cur_sign = NoSign THEN 1 ELSE cur_streak + 1

\* app.py:888-892
NextStreak(cur_sign, cur_streak, sign) ==
    IF cur_sign = NoSign \/ sign # cur_sign THEN 1 ELSE cur_streak + 1

Closes == {1, 2, NaN}
Volumes == {0, 1}

RawRows == [Close : Closes, Volume : Volumes]

RECURSIVE SeqsUpTo(_, _)
\* the sequences over S of length 1..n
SeqsUpTo(S, n) ==
    IF n = 0 THEN {}
    ELSE LET shorter == SeqsUpTo(S, n - 1)
         IN {<<x>> : x \in S} \cup shorter
            \cup {Append(q, x) : q \in {r \in shorter : Len(r) = n - 1}, x \in S}

\* the dataframe of one ticker out of yf.download, not empty (app.py:853-857)
StreakInit ==
    /\ etf_df \in SeqsUpTo(RawRows, MaxDays)
    /\ streak_pc = "flow"
    /\ streak_values = <<>>
    /\ current_sign = NoSign
    /\ current_streak = 0

\* app.py:859-877
ComputeFlow ==
    /\ streak_pc = "flow"
    /\ etf_df' = FlowColumns(etf_df)
    /\ streak_values' = <<>>
    /\ current_sign' = NoSign
    /\ current_streak' = 0
    /\ streak_pc' = "loop"
    /\ UNCHANGED notStreak

\* app.py:879-894: one pass of `for sign in df['Flow_Sign'].values`
StreakRow ==
    /\ streak_pc = "loop"
    /\ Len(streak_values) < Len(etf_df)
    /\ LET sign == etf_df[Len(streak_values) + 1].Flow_Sign
       IN IF sign = NaN
          THEN /\ streak_values' = Append(streak_values, 0)
               /\ current_streak' = 0
               /\ current_sign' = NoSign
          ELSE /\ current_streak' = NextStreak(current_sign, current_streak, sign)
               /\ current_sign' = sign
               /\ streak_values' = Append(streak_values, current_streak' * sign)
    /\ UNCHANGED <<etf_df, streak_pc>>
    /\ UNCHANGED notStreak

\* app.py:896-897: df['Streak'] = streak_values
StoreStreak ==
    /\ streak_pc = "loop"
    /\ Len(streak_values) = Len(etf_df)
    /\ etf_df' = [i \in 1..Len(etf_df) |->
                    [etf_df[i] EXCEPT !.Streak = streak_values[i]]]
    /\ streak_pc' = "done"
    /\ UNCHANGED <<streak_values, current_sign, current_streak>>
    /\ UNCHANGED notStreak

StreakNext ==
    \/ ComputeFlow
    \/ StreakRow
    \/ StoreStreak

InitStreak == StreakInit /\ FetchIdle /\ RunIdle /\ CacheIdle /\ YesIdle /\ OthersIdle

SpecStreak == InitStreak /\ [][StreakNext]_vars

\* the number of consecutive rows ending at row i that carry row i's sign
RunLength(i) ==
    Cardinality({j \in 1..i : \A k \in j..i : etf_df[k].Flow_Sign = etf_df[i].Flow_Sign})

\* C2: on every row whose flow sign is defined, Streak is the sign times the
\* number of consecutive rows ending there with that same sign (so +1 or -1 on
\* the first row of a run, one more on each following row); Streak is 0 only
\* on rows whose sign is undefined.
C2_StreakIsSignedRunLength ==
    streak_pc = "done" =>
        \A i \in 1..Len(etf_df) :
            /\ etf_df[i].Flow_Sign # NaN =>
                 /\ etf_df[i].Flow_Sign \in {-1, 1}
                 /\ etf_df[i].Streak = etf_df[i].Flow_Sign * RunLength(i)
            /\ etf_df[i].Streak = 0 => etf_df[i].Flow_Sign = NaN

\* a selling day after two buying days: the streak falls from +2 to -1
C2_Witness ==
    /\ streak_pc = "done"
    /\ \E i \in 2..Len(etf_df) :
         /\ etf_df[i - 1].Streak = 2
         /\ etf_df[i].Streak = -1
    /\ etf_df[1].Streak = 0

(***************************************************************************)
(* The dashboard script: main (src/app.py).  Streamlit runs the script     *)
(* top to bottom for every interaction and for every st.rerun().           *)
(***************************************************************************)
\* config.SYMBOLS, a symbol being "<prefix>:<ticker>"
SYMBOLS == <<[prefix |-> "xyz", name |-> "AAPL"],
             [prefix |-> "flx", name |-> "AAPL"],
             [prefix |-> "xyz", name |-> "TSLA"]>>

\* utils.py:10-14
extract_ticker(symbol) == symbol.name

\* what st.multiselect can hold: distinct symbols, at most MaxSymbols of them
Selections ==
    {q \in {<<>>} \cup SeqsUpTo({SYMBOLS[i] : i \in 1..Len(SYMBOLS)}, MaxSymbols) :
        \A i, j \in 1..Len(q) : i # j => q[i] # q[j]}

\* app.py:410: default_symbols
default_symbols ==
    SubSeq(SYMBOLS, 1, IF MaxSymbols < Len(SYMBOLS) THEN MaxSymbols ELSE Len(SYMBOLS))

\* app.py:536-538: the tabs in the order the script renders them
TabOrder == <<"overview", "technicals", "derivatives", "options",
              "etf", "polymarket", "macro", "treasury">>

\* app.py:502-509: the entry of a symbol whose loading succeeded
LoadedEntry(symbol, candles, funding, options) ==
    [ticker        |-> extract_ticker(symbol),
     df            |-> candles,
     funding_df    |-> funding,
     technicals    |-> IF candles = "empty" THEN "{}" ELSE "computed",
     deriv_metrics |-> IF funding = "empty"
                       THEN [latest_funding_annualized |-> "None",
                             mean_funding_annualized   |-> "None",
                             max_funding_annualized    |-> "None",
                             min_funding_annualized    |-> "None",
                             funding_comment           |-> "No funding data available.",
                             estimated_long_ratio      |-> 50,
                             estimated_short_ratio     |-> 50]
                       ELSE [latest_funding_annualized |-> "float",
                             mean_funding_annualized   |-> "float",
                             max_funding_annualized    |-> "float",
                             min_funding_annualized    |-> "float",
                             funding_comment           |-> "computed",
                             estimated_long_ratio      |-> 50,
                             estimated_short_ratio     |-> 50],
     options_data  |-> options]

\* app.py:513-530: the entry stored by the except branch (ratios in percent)
SentinelEntry(symbol) ==
    [ticker        |-> extract_ticker(symbol),
     df            |-> "empty",
     funding_df    |-> "empty",
     technicals    |-> "{}",
     deriv_metrics |-> [latest_funding_annualized |-> "None",
                        mean_funding_annualized   |-> "None",
                        max_funding_annualized    |-> "None",
                        min_funding_annualized    |-> "None",
                        funding_comment           |-> "Error loading data.",
                        estimated_long_ratio      |-> 50,
                        estimated_short_ratio     |-> 50],
     options_data  |-> "{}"]

\* the mutant of StoreSentinel: the except branch stores nothing
StoreNothing(data, symbol) == data

\* app.py:510-530: the except branch of the loading loop
StoreSentinel(data, symbol) == (symbol :> SentinelEntry(symbol)) @@ data

\* the steps of the try body that can raise (app.py:493-500)
LoadSteps == {"fetch_candles", "fetch_funding_history", "compute_all_technicals",
              "compute_derivatives_metrics"}

FreshRun ==
    /\ run_pc' = "sidebar"
    /\ runs' = runs + 1
    /\ all_data' = <<>>
    /\ load_failed' = {}
    /\ rendered' = <<>>

\* the first run of a session: the widgets hold their defaults (app.py:413-442)
RunInit ==
    /\ run_pc = "sidebar"
    /\ runs = 1
    /\ auto_refresh = FALSE
    /\ clear_clicked = FALSE
    /\ selected_symbols = default_symbols
    /\ all_data = <<>>
    /\ load_failed = {}
    /\ rendered = <<>>

\* The user acts on a widget: Streamlit stops the run in progress, wherever it
\* is, and runs the script again with the widget's new value.
\* app.py:442: the checkbox
ToggleAutoRefresh ==
    /\ runs < MaxRuns
    /\ FreshRun
    /\ auto_refresh' = ~auto_refresh
    /\ clear_clicked' = FALSE
    /\ UNCHANGED selected_symbols
    /\ UNCHANGED notRun

\* app.py:461: the button
ClickClearCache ==
    /\ runs < MaxRuns
    /\ FreshRun
    /\ clear_clicked' = TRUE
    /\ UNCHANGED <<auto_refresh, selected_symbols>>
    /\ UNCHANGED notRun

\* app.py:413: the multiselect
ChangeSelection ==
    /\ runs < MaxRuns
    /\ FreshRun
    /\ selected_symbols' \in Selections \ {selected_symbols}
    /\ clear_clicked' = FALSE
    /\ UNCHANGED auto_refresh
    /\ UNCHANGED notRun

\* st.rerun() (app.py:445, 464): the script runs again, the widgets unchanged
Rerun ==
    /\ run_pc = "rerun"
    /\ runs < MaxRuns
    /\ FreshRun
    /\ clear_clicked' = FALSE
    /\ UNCHANGED <<auto_refresh, selected_symbols>>
    /\ UNCHANGED notRun

\* app.py:406-476: the sidebar block and the check of the selection
Sidebar ==
    /\ run_pc = "sidebar"
    /\ run_pc' = IF auto_refresh THEN "sleep"
                 ELSE IF clear_clicked THEN "rerun"
                 ELSE IF selected_symbols = <<>> THEN "end"
                 ELSE "discover"
    /\ UNCHANGED <<runs, auto_refresh, clear_clicked, selected_symbols,
                   all_data, load_failed, rendered>>
    /\ UNCHANGED notRun

\* app.py:444-445: time.sleep(300) is over; st.rerun() ends the run
SleepThenRerun ==
    /\ run_pc = "sleep"
    /\ run_pc' = "rerun"
    /\ UNCHANGED <<runs, auto_refresh, clear_clicked, selected_symbols,
                   all_data, load_failed, rendered>>
    /\ UNCHANGED notRun

\* app.py:479: discover_assets(); post_info turns a failed request into None
DiscoverAssets ==
    /\ run_pc = "discover"
    /\ run_pc' = "load"
    /\ UNCHANGED <<runs, auto_refresh, clear_clicked, selected_symbols,
                   all_data, load_failed, rendered>>
    /\ UNCHANGED notRun

\* app.py:486-530: one pass of the loading loop
LoadSymbol ==
    /\ run_pc = "load"
    /\ Cardinality(DOMAIN all_data) < Len(selected_symbols)
    /\ LET symbol == selected_symbols[Cardinality(DOMAIN all_data) + 1]
       IN \E raised \in LoadSteps \cup {"none"},
             candles \in {"empty", "data"},
             funding \in {"empty", "data"},
             options \in {"None", "dict"} :
            IF raised = "none"
            THEN /\ all_data' = (symbol :> LoadedEntry(symbol, candles, funding, options))
                                @@ all_data
                 /\ load_failed' = load_failed
            ELSE /\ all_data' = StoreSentinel(all_data, symbol)
                 /\ load_failed' = load_failed \cup {symbol}
    /\ UNCHANGED <<run_pc, runs, auto_refresh, clear_clicked, selected_symbols, rendered>>
    /\ UNCHANGED notRun

\* app.py:532-538: the loop is over, the tabs are created
LoadDone ==
    /\ run_pc = "load"
    /\ Cardinality(DOMAIN all_data) >= Len(selected_symbols)
    /\ run_pc' = "tabs"
    /\ UNCHANGED <<runs, auto_refresh, clear_clicked, selected_symbols,
                   all_data, load_failed, rendered>>
    /\ UNCHANGED notRun

NextTab == TabOrder[Len(rendered) + 1]

AfterTab == IF Len(rendered) + 1 = Len(TabOrder) THEN "end" ELSE "tabs"

\* app.py:543-827: the four tabs drawn from all_data, without external calls
RenderDataTab ==
    /\ run_pc = "tabs"
    /\ NextTab \in {"overview", "technicals", "derivatives", "options"}
    /\ rendered' = Append(rendered, [tab |-> NextTab, data |-> TRUE])
    /\ run_pc' = AfterTab
    /\ UNCHANGED <<runs, auto_refresh, clear_clicked, selected_symbols,
                   all_data, load_failed>>
    /\ UNCHANGED notRun

\* app.py:832-1001: the ETF tab; yf.download (app.py:847) is outside any try,
\* so its exception leaves fetch_etf_data and main
RenderEtfTab ==
    /\ run_pc = "tabs"
    /\ NextTab = "etf"
    /\ \E download \in {"ok", "empty", "raise"} :
         IF download = "raise"
         THEN run_pc' = "aborted" /\ rendered' = rendered
         ELSE /\ rendered' = Append(rendered, [tab |-> NextTab, data |-> download = "ok"])
              /\ run_pc' = AfterTab
    /\ UNCHANGED <<runs, auto_refresh, clear_clicked, selected_symbols,
                   all_data, load_failed>>
    /\ UNCHANGED notRun

\* app.py:1006-1583, 1588-1853, 1857-2020: the Polymarket, macro and treasury
\* tabs; their fetchers return an empty result when the external call fails
RenderFetchedTab ==
    /\ run_pc = "tabs"
    /\ NextTab \in {"polymarket", "macro", "treasury"}
    /\ \E ok \in BOOLEAN :
         rendered' = Append(rendered, [tab |-> NextTab, data |-> ok])
    /\ run_pc' = AfterTab
    /\ UNCHANGED <<runs, auto_refresh, clear_clicked, selected_symbols,
                   all_data, load_failed>>
    /\ UNCHANGED notRun

RunNext ==
    \/ ToggleAutoRefresh
    \/ ClickClearCache
    \/ ChangeSelection
    \/ Rerun
    \/ Sidebar
    \/ SleepThenRerun
    \/ DiscoverAssets
    \/ LoadSymbol
    \/ LoadDone
    \/ RenderDataTab
    \/ RenderEtfTab
    \/ RenderFetchedTab

InitRun == RunInit /\ FetchIdle /\ StreakIdle /\ CacheIdle /\ YesIdle /\ OthersIdle

SpecRun == InitRun /\ [][RunNext]_vars

Range(q) == {q[i] : i \in 1..Len(q)}

RenderedTabs == {rendered[i].tab : i \in 1..Len(rendered)}

\* C3: a failure while loading one symbol is local: the loop goes on, and when
\* it ends all_data holds exactly one entry per selected symbol, the failed
\* ones holding the default sentinel entry.
C3_LoadFailureIsLocal ==
    /\ run_pc = "load" =>
         DOMAIN all_data =
             {selected_symbols[i] : i \in 1..Cardinality(DOMAIN all_data)}
    /\ run_pc \in {"tabs", "end", "aborted"} /\ selected_symbols # <<>> =>
         /\ DOMAIN all_data = Range(selected_symbols)
         /\ \A s \in load_failed :
              /\ all_data[s] = SentinelEntry(s)
              /\ all_data[s].df = "empty"
              /\ all_data[s].funding_df = "empty"
              /\ all_data[s].technicals = "{}"
              /\ all_data[s].deriv_metrics.latest_funding_annualized = "None"
              /\ all_data[s].deriv_metrics.estimated_long_ratio = 50
              /\ all_data[s].deriv_metrics.estimated_short_ratio = 50

\* the first symbol failed, the second loaded, and the tabs were reached
C3_Witness ==
    /\ run_pc = "tabs"
    /\ Len(selected_symbols) >= 2
    /\ selected_symbols[1] \in load_failed
    /\ selected_symbols[2] \notin load_failed
    /\ all_data[selected_symbols[2]].df = "data"

\* C4 as stated: no failed external call aborts the run; the run goes on to
\* render the remaining tabs.
C4_NoFailedCallAbortsRun ==
    /\ run_pc # "aborted"
    /\ (run_pc = "end" /\ selected_symbols # <<>>) =>
          RenderedTabs = Range(TabOrder)

\* C7 as stated: with auto-refresh enabled every script run still goes through
\* the data fetch and the rendering of the tabs.
C7_AutoRefreshRunReachesTabs ==
    (auto_refresh /\ selected_symbols # <<>> /\ run_pc \in {"rerun", "end"}) =>
        /\ DOMAIN all_data = Range(selected_symbols)
        /\ RenderedTabs = Range(TabOrder)

(***************************************************************************)
(* The cached fetchers: @st.cache_data(ttl=...) on post_info, fetch_candles *)
(* and fetch_funding_history (src/src/api.py) and on fetch_options_data    *)
(* (src/src/options.py).  A decorated function keeps one entry per         *)
(* argument tuple; an entry older than the ttl is not used.                *)
(***************************************************************************)
CachedFetchers == {"post_info", "fetch_candles", "fetch_funding_history",
                   "fetch_options_data"}

\* the mutant of Ttl: the ttl of fetch_candles and of post_info exchanged
TtlSwapped(fn) ==
    CASE fn = "post_info" -> 60
      [] fn = "fetch_candles" -> 300
      [] fn = "fetch_funding_history" -> 120
      [] fn = "fetch_options_data" -> 3600

\* api.py:15, api.py:62, api.py:149, options.py:32: the ttl of each decorator
Ttl(fn) ==
    CASE fn = "post_info" -> 300
      [] fn = "fetch_candles" -> 60
      [] fn = "fetch_funding_history" -> 120
      [] fn = "fetch_options_data" -> 3600

Coins == {"xyz:AAPL", "xyz:TSLA"}

\* api.py:29: the payload of discover_assets
MetaPayload == [type |-> "metaAndAssetCtxs", coin |-> "-", endTime |-> 0]

\* api.py:65-76: the payload of fetch_candles, stamped with the current time
CandlePayload(coin, t) == [type |-> "candleSnapshot", coin |-> coin, endTime |-> t]

CoinArgs(coin) == [type |-> "-", coin |-> coin, endTime |-> 0]

\* the calls main makes: discover_assets -> post_info (app.py:479),
\* fetch_candles, fetch_funding_history, fetch_options_data (app.py:493-500)
TopLevelCalls ==
    {[fn |-> "post_info", args |-> MetaPayload]}
    \cup {[fn |-> f, args |-> CoinArgs(c)] :
            f \in {"fetch_candles", "fetch_funding_history", "fetch_options_data"},
            c \in Coins}

\* st.cache_data keys an entry by the function and its arguments
CacheKey(fn, args) == [fn |-> fn, args |-> args]

\* the entry st.cache_data would use for a call at time t, if there is one
Fresh(c, fn, args, t) ==
    /\ CacheKey(fn, args) \in DOMAIN c
    /\ t - c[CacheKey(fn, args)].at < Ttl(fn)

Store(c, fn, args, value, t) ==
    (CacheKey(fn, args) :> [value |-> value, at |-> t]) @@ c

\* what one execution of a fetcher body returns: its data, identified by the
\* function, the arguments and the time of the request that produced it
Produced(fn, args, t) == [fn |-> fn, args |-> args, at |-> t]

CacheInit ==
    /\ now = 0
    /\ cache = <<>>
    /\ executions = <<>>
    /\ ext_requests = 0
    /\ last_call = NoCall
    /\ steps = 0

\* time passes between two calls
Tick ==
    /\ steps < MaxSteps
    /\ steps' = steps + 1
    /\ \E d \in {30, 60, 240, 3600} : now' = now + d
    /\ UNCHANGED <<cache, executions, ext_requests, last_call>>
    /\ UNCHANGED notCache

\* one call of a cached fetcher by main.  The body of fetch_candles calls the
\* cached post_info with a payload holding the current time (api.py:65-78);
\* the other bodies send their requests themselves.
CallFetcher ==
    /\ steps < MaxSteps
    /\ steps' = steps + 1
    /\ \E call \in TopLevelCalls :
         LET fn   == call.fn
             args == call.args
             hit  == Fresh(cache, fn, args, now)
             inner == CandlePayload(args.coin, now)
             innerHit == Fresh(cache, "post_info", inner, now)
             sent == IF fn = "fetch_candles" /\ innerHit THEN 0 ELSE 1
             afterInner ==
                 IF fn = "fetch_candles" /\ ~innerHit
                 THEN Store(cache, "post_info", inner,
                            Produced("post_info", inner, now), now)
                 ELSE cache
             value == IF hit THEN cache[CacheKey(fn, args)].value
                      ELSE Produced(fn, args, now)
         IN /\ cache' = IF hit THEN cache ELSE Store(afterInner, fn, args, value, now)
            /\ ext_requests' = IF hit THEN ext_requests ELSE ext_requests + sent
            /\ executions' = IF hit THEN executions
                             ELSE ([fn |-> fn, args |-> args] :> now) @@ executions
            /\ last_call' = [fn |-> fn, args |-> args, at |-> now,
                             executed |-> ~hit,
                             prior |-> IF [fn |-> fn, args |-> args] \in DOMAIN executions
                                       THEN executions[[fn |-> fn, args |-> args]]
                                       ELSE NaN,
                             requests |-> ext_requests' - ext_requests,
                             value |-> value]
    /\ UNCHANGED now
    /\ UNCHANGED notCache

CacheNext ==
    \/ Tick
    \/ CallFetcher

InitCache == CacheInit /\ FetchIdle /\ StreakIdle /\ RunIdle /\ YesIdle /\ OthersIdle

SpecCache == InitCache /\ [][CacheNext]_vars

\* the ttl the claim gives for each fetcher
ClaimedTtl(fn) ==
    CASE fn = "post_info" -> 300
      [] fn = "fetch_candles" -> 60
      [] fn = "fetch_funding_history" -> 120
      [] fn = "fetch_options_data" -> 3600

C6_WitnessHit ==
    /\ last_call.fn = "fetch_funding_history"
    /\ ~last_call.executed
    /\ last_call.at - last_call.prior = 60
    /\ \E k \in DOMAIN cache : k.fn = "fetch_funding_history" /\ k.args # last_call.args

(***************************************************************************)
(* extract_yes_probability and safe_json_list                              *)
(* (src/polymarket_price_predictions.py:67-121, copied at                  *)
(* src/app.py:1050-1088).  Prices are in percent.                          *)
(***************************************************************************)
\* str.strip() on the strings of the model
Strip(text) ==
    CASE text = "   " -> ""
      [] text = " YES " -> "YES"
      [] OTHER -> text

\* str.lower() on the strings of the model
Lower(text) ==
    CASE text = "Yes" -> "yes"
      [] text = "YES" -> "yes"
      [] text = "No" -> "no"
      [] OTHER -> text

\* float(p): the number, NaN for "nan", and NaN where float raises
\* (polymarket_price_predictions.py:105-109)
ToFloat(p) ==
    CASE p.t = "num" -> p.v
      [] p.t = "str" /\ p.s = "0.35" -> 35
      [] p.t = "str" /\ p.s = "0.65" -> 65
      [] OTHER -> NaN

\* json.loads on the strings of the model: the value, or a failure
JsonLoads(text) ==
    CASE text = "[\"Yes\", \"No\"]" ->
             [ok |-> TRUE, v |-> PyList(<<PyStr("Yes"), PyStr("No")>>)]
      [] text = "[\"No\", \"Yes\"]" ->
             [ok |-> TRUE, v |-> PyList(<<PyStr("No"), PyStr("Yes")>>)]
      [] text = "[\"0.35\", \"0.65\"]" ->
             [ok |-> TRUE, v |-> PyList(<<PyStr("0.35"), PyStr("0.65")>>)]
      [] text = "[0.35, 0.65]" ->
             [ok |-> TRUE, v |-> PyList(<<PyNum(35), PyNum(65)>>)]
      [] text = "5" -> [ok |-> TRUE, v |-> PyNum(5)]
      [] text = "{\"Yes\": 0.35}" -> [ok |-> TRUE, v |-> PyDict(<<PyStr("Yes")>>)]
      [] OTHER -> [ok |-> FALSE, v |-> PyNone]

\* s.replace("'", '"') on the strings of the model
SingleToDoubleQuotes(text) ==
    CASE text = "['No', 'Yes']" -> "[\"No\", \"Yes\"]"
      [] text = "['0.35', '0.65']" -> "[\"0.35\", \"0.65\"]"
      [] OTHER -> text

\* polymarket_price_predictions.py:67-92
safe_json_list(value) ==
    IF value.t = "none" THEN PyList(<<>>)
    ELSE IF value.t = "list" THEN value
    ELSE IF value.t = "str"
         THEN LET str == Strip(value.s)
              IN IF str = "" THEN PyList(<<>>)
                 ELSE IF JsonLoads(str).ok THEN JsonLoads(str).v
                 ELSE IF JsonLoads(SingleToDoubleQuotes(str)).ok
                      THEN JsonLoads(SingleToDoubleQuotes(str)).v
                      ELSE PyList(<<>>)
    ELSE PyList(<<>>)

\* isinstance(o, str) and o.strip().lower() == "yes"
IsYes(o) == o.t = "str" /\ Lower(Strip(o.s)) = "yes"

\* the mutant of FirstYes: the last "yes" outcome instead of the first
LastYes(outcomes) ==
    LET Y == {i \in 1..Len(outcomes) : IsYes(outcomes[i])}
    IN IF Y = {} THEN 0 ELSE CHOOSE i \in Y : \A j \in Y : j <= i

\* polymarket_price_predictions.py:113-115: the index at which the loop returns
\* (0 when it runs to its end)
FirstYes(outcomes) ==
    LET Y == {i \in 1..Len(outcomes) : IsYes(outcomes[i])}
    IN IF Y = {} THEN 0 ELSE CHOOSE i \in Y : \A j \in Y : i <= j

\* fprices[i] if pd.notna(fprices[i]) else None
NotNaOrNone(x) == IF x = NaN THEN PyNone ELSE PyNum(x)

\* polymarket_price_predictions.py:95-121.  Iterating a dictionary yields its
\* keys; iterating or measuring a number raises TypeError.
extract_yes_probability(m) ==
    LET outcomes == safe_json_list(m.outcomes)
        prices   == safe_json_list(m.outcomePrices)
    IN IF prices.t = "num" THEN PyRaise
       ELSE LET fprices == [i \in 1..Len(prices.v) |-> ToFloat(prices.v[i])]
            IN IF outcomes.t = "num" /\ fprices # <<>> THEN PyRaise
               ELSE IF outcomes.t # "num" /\ outcomes.v # <<>> /\ fprices # <<>>
                       /\ Len(outcomes.v) = Len(fprices)
                       /\ FirstYes(outcomes.v) # 0
                    THEN NotNaOrNone(fprices[FirstYes(outcomes.v)])
                    ELSE IF fprices # <<>> THEN NotNaOrNone(fprices[1])
                    ELSE PyNone

OutcomeItems == {PyStr("Yes"), PyStr(" YES "), PyStr("No"), PyNum(1)}

PriceItems == {PyStr("0.35"), PyNum(65), PyStr("abc"), PyStr("nan"), PyNone}

OutcomeTexts == {"[\"Yes\", \"No\"]", "['No', 'Yes']", "", "   ", "n/a", "5",
                 "{\"Yes\": 0.35}"}

PriceTexts == {"[\"0.35\", \"0.65\"]", "['0.35', '0.65']", "[0.35, 0.65]", "", "n/a",
               "5", "{\"Yes\": 0.35}"}

\* what the Gamma API puts in a field: nothing, a list, or a string
FieldValues(Items, Texts) ==
    {PyNone, PyList(<<>>)}
    \cup {PyList(q) : q \in SeqsUpTo(Items, MaxOutcomes)}
    \cup {PyStr(text) : text \in Texts}

YesInit ==
    /\ market \in [outcomes : FieldValues(OutcomeItems, OutcomeTexts),
                   outcomePrices : FieldValues(PriceItems, PriceTexts)]
    /\ yes_pc = "call"
    /\ yes_result = PyNone

ExtractYes ==
    /\ yes_pc = "call"
    /\ yes_result' = extract_yes_probability(market)
    /\ yes_pc' = "done"
    /\ UNCHANGED market
    /\ UNCHANGED notYes

YesNext == ExtractYes

InitYes == YesInit /\ FetchIdle /\ StreakIdle /\ RunIdle /\ CacheIdle /\ OthersIdle

SpecYes == InitYes /\ [][YesNext]_vars

\* the price a list item stands for when it is a number, NaN otherwise
ClaimedNumber(p) ==
    IF p.t = "num" THEN p.v
    ELSE IF p.t = "str" /\ p.s \in {"0.35", "0.65"} THEN ToFloat(p)
    ELSE NaN

\* C8: when the outcomes and outcomePrices lists have the same non-zero length
\* and some outcome is "yes" (case and surrounding blanks ignored), the price
\* at the index of the first such outcome is selected, otherwise the price at
\* index 0; the result is None when there are no prices or the selected price
\* is not a number, and the selected price otherwise.
C8_YesPriceOrFirstPrice ==
    (/\ yes_pc = "done"
     /\ safe_json_list(market.outcomes).t = "list"
     /\ safe_json_list(market.outcomePrices).t = "list") =>
        LET outcomes == safe_json_list(market.outcomes).v
            prices   == safe_json_list(market.outcomePrices).v
            Y        == {i \in 1..Len(outcomes) :
                            /\ outcomes[i].t = "str"
                            /\ outcomes[i].s \in {"Yes", " YES ", "yes", "YES"}}
            selected == IF Len(outcomes) = Len(prices) /\ Len(outcomes) > 0 /\ Y # {}
                        THEN CHOOSE i \in Y : \A j \in Y : i <= j
                        ELSE 1
        IN IF prices = <<>> THEN yes_result = PyNone
           ELSE IF ClaimedNumber(prices[selected]) = NaN THEN yes_result = PyNone
           ELSE yes_result = PyNum(ClaimedNumber(prices[selected]))

\* the "yes" outcome is the second one and its price is returned
C8_Witness ==
    /\ yes_pc = "done"
    /\ market.outcomes = PyList(<<PyStr("No"), PyStr(" YES ")>>)
    /\ market.outcomePrices = PyList(<<PyStr("0.35"), PyNum(65)>>)
    /\ yes_result = PyNum(65)

\* no "yes" outcome: the first price is returned
C8_WitnessFallback ==
    /\ yes_pc = "done"
    /\ market.outcomes = PyList(<<PyStr("No"), PyNum(1)>>)
    /\ market.outcomePrices = PyList(<<PyStr("0.35"), PyNum(65)>>)
    /\ yes_result = PyNum(35)

\* both fields arrive as strings, one of them in single quotes
C8_WitnessEncoded ==
    /\ yes_pc = "done"
    /\ market.outcomes = PyStr("['No', 'Yes']")
    /\ market.outcomePrices = PyStr("[0.35, 0.65]")
    /\ yes_result = PyNum(65)

(***************************************************************************)
(* parse_ics_events (src/macro_events.py:37-101).                          *)
(*                                                                         *)
(* A line is a sequence of pieces of text (its concatenation is the line); *)
(* " " is the one-character blank.  A date-time is [ymd, hms].             *)
(***************************************************************************)
BeginEvent == <<"BEGIN:VEVENT">>

EndEvent == <<"END:VEVENT">>

SummaryLine == <<"SUMMARY:", " ", "CPI">>

DtDate == <<"DTSTART", ":", "20250107">>

DtLocal == <<"DTSTART", ";TZID=America/New_York", ":", "20250211T083000">>

DtMalformed == <<"DTSTART", ":", "20250312T1330Z">>

DtFolded == <<"DTSTART">>

Continuation == <<" ", ":", "20250312">>

StampLine == <<"DTSTAMP", ":", "20250101T000000Z">>

\* what stands between two markers in the calendars of the model
EventBodies ==
    {<<>>, <<SummaryLine>>, <<DtDate>>, <<SummaryLine, DtDate>>,
     <<DtLocal, SummaryLine>>, <<SummaryLine, DtDate, DtLocal>>,
     <<SummaryLine, DtMalformed>>, <<SummaryLine, DtFolded, Continuation>>,
     <<SummaryLine, DtFolded>>, <<Continuation, SummaryLine, DtDate>>,
     <<StampLine, SummaryLine, DtLocal>>}

\* a stretch of a calendar: lines with or without the markers around them
Segments ==
    {(IF b THEN <<BeginEvent>> ELSE <<>>) \o body
        \o (IF e THEN <<EndEvent>> ELSE <<>>) :
        b \in BOOLEAN, body \in EventBodies, e \in BOOLEAN}

RECURSIVE Flatten(_)
Flatten(segs) == IF segs = <<>> THEN <<>> ELSE Head(segs) \o Flatten(Tail(segs))

\* ics_text.splitlines() of the calendars of the model
IcsTexts == {<<>>} \cup {Flatten(segs) : segs \in SeqsUpTo(Segments, MaxBlocks)}

RECURSIVE UnfoldLoop(_, _)
\* macro_events.py:41-45
UnfoldLoop(lines, out) ==
    IF lines = <<>> THEN out
    ELSE LET ln == Head(lines)
         IN IF ln # <<>> /\ Head(ln) = " " /\ out # <<>>
            THEN UnfoldLoop(Tail(lines), [out EXCEPT ![Len(out)] = @ \o Tail(ln)])
            ELSE UnfoldLoop(Tail(lines), Append(out, ln))

\* macro_events.py:37-46
unfold_ics_lines(text) == UnfoldLoop(text, <<>>)

RECURSIVE StripLeft(_)
StripLeft(txt) ==
    IF txt # <<>> /\ Head(txt) = " " THEN StripLeft(Tail(txt)) ELSE txt

RECURSIVE StripRight(_)
StripRight(txt) ==
    IF txt # <<>> /\ txt[Len(txt)] = " "
    THEN StripRight(SubSeq(txt, 1, Len(txt) - 1)) ELSE txt

\* str.strip()
StripText(txt) == StripRight(StripLeft(txt))

\* the position of the first ":" of a line, 0 if it has none
FirstColon(ln) ==
    LET C == {i \in 1..Len(ln) : ln[i] = ":"}
    IN IF C = {} THEN 0 ELSE CHOOSE i \in C : \A j \in C : i <= j

ValueError == [ymd |-> NaN, hms |-> NaN]

\* macro_events.py:49-61: re.fullmatch and datetime.strptime on the values of
\* the model; strptime raises ValueError on everything else
parse_ics_dt(dt_raw) ==
    LET v == StripText(dt_raw)
    IN CASE v = <<"20250107">> -> [ymd |-> 20250107, hms |-> 0]
         [] v = <<"20250312">> -> [ymd |-> 20250312, hms |-> 0]
         [] v = <<"20250211T083000">> -> [ymd |-> 20250211, hms |-> 83000]
         [] v = <<"20250101T000000Z">> -> [ymd |-> 20250101, hms |-> 0]
         [] OTHER -> ValueError

\* the mutant of NotInEvent: lines outside an event are not skipped
NotInEventNever(in_event) == FALSE

\* macro_events.py:86: `if not in_event: continue`
NotInEvent(in_event) == ~in_event

RECURSIVE ParseLoop(_, _, _, _)
\* macro_events.py:75-94: the loop over the unfolded lines
ParseLoop(lines, in_event, cur, events) ==
    IF lines = <<>> THEN [kind |-> "ok", events |-> events]
    ELSE LET ln == Head(lines)
             rest == Tail(lines)
         IN IF ln = BeginEvent THEN ParseLoop(rest, TRUE, <<>>, events)
            ELSE IF ln = EndEvent
                 THEN ParseLoop(rest, FALSE, <<>>,
                                IF "SUMMARY" \in DOMAIN cur /\ "DTSTART" \in DOMAIN cur
                                THEN Append(events, cur) ELSE events)
            ELSE IF NotInEvent(in_event) THEN ParseLoop(rest, in_event, cur, events)
            ELSE IF ln # <<>> /\ Head(ln) = "SUMMARY:"
                 THEN ParseLoop(rest, in_event,
                                ("SUMMARY" :> StripText(Tail(ln))) @@ cur, events)
            ELSE IF ln # <<>> /\ Head(ln) = "DTSTART"
                 THEN IF FirstColon(ln) = 0 THEN [kind |-> "raise", events |-> events]
                      ELSE LET val == SubSeq(ln, FirstColon(ln) + 1, Len(ln))
                           IN IF parse_ics_dt(val) = ValueError
                              THEN [kind |-> "raise", events |-> events]
                              ELSE ParseLoop(rest, in_event,
                                             ("DTSTART" :> parse_ics_dt(val)) @@ cur,
                                             events)
            ELSE ParseLoop(rest, in_event, cur, events)

\* macro_events.py:64-101: the rows of the dataframe, or the exception
parse_ics_events(text) ==
    LET parsed == ParseLoop(unfold_ics_lines(text), FALSE, <<>>, <<>>)
    IN IF parsed.kind = "raise" THEN [kind |-> "raise", rows |-> <<>>]
       ELSE [kind |-> "rows",
             rows |-> [i \in 1..Len(parsed.events) |->
                         [DATE |-> parsed.events[i]["DTSTART"].ymd,
                          SUMMARY |-> parsed.events[i]["SUMMARY"]]]]

IcsInit ==
    /\ ics_text \in IcsTexts
    /\ ics_pc = "call"
    /\ ics_result = [kind |-> "none"]

ParseIcs ==
    /\ ics_pc = "call"
    /\ ics_result' = parse_ics_events(ics_text)
    /\ ics_pc' = "done"
    /\ UNCHANGED ics_text
    /\ UNCHANGED notIcs

IcsNext == ParseIcs

InitIcs == IcsInit /\ FetchIdle /\ StreakIdle /\ RunIdle /\ CacheIdle /\ YesIdle /\ FomcIdle /\ PanelIdle /\ PolyIdle /\ DerivIdle /\ MacroIdle /\ CrossIdle /\ RsiIdle /\ MtabIdle

SpecIcs == InitIcs /\ [][IcsNext]_vars

\* the lines the parser works on
IcsLines == unfold_ics_lines(ics_text)

IsSummaryLine(ln) == ln # <<>> /\ Head(ln) = "SUMMARY:"

IsDtstartLine(ln) == ln # <<>> /\ Head(ln) = "DTSTART"

\* the END:VEVENT lines that close a block: a BEGIN:VEVENT line before them
\* with neither marker in between
BlockEnds ==
    {e \in 1..Len(IcsLines) :
        /\ IcsLines[e] = EndEvent
        /\ \E b \in 1..(e - 1) :
              /\ IcsLines[b] = BeginEvent
              /\ \A k \in (b + 1)..(e - 1) :
                    IcsLines[k] # BeginEvent /\ IcsLines[k] # EndEvent}

BlockBegin(e) ==
    CHOOSE b \in 1..(e - 1) :
        /\ IcsLines[b] = BeginEvent
        /\ \A k \in (b + 1)..(e - 1) :
              IcsLines[k] # BeginEvent /\ IcsLines[k] # EndEvent

SummariesOf(e) == {k \in (BlockBegin(e) + 1)..(e - 1) : IsSummaryLine(IcsLines[k])}

DtstartsOf(e) == {k \in (BlockBegin(e) + 1)..(e - 1) : IsDtstartLine(IcsLines[k])}

\* the blocks that contain both a SUMMARY line and a DTSTART line
FullBlocks == {e \in BlockEnds : SummariesOf(e) # {} /\ DtstartsOf(e) # {}}

\* the date a DTSTART line of one of the three forms gives, NaN for any other
ClaimedDate(ln) ==
    LET c == FirstColon(ln)
        v == IF c = 0 THEN <<>> ELSE SubSeq(ln, c + 1, Len(ln))
    IN CASE v = <<"20250107">> -> 20250107
         [] v = <<"20250312">> -> 20250312
         [] v = <<"20250211T083000">> -> 20250211
         [] OTHER -> NaN

Last(S) == CHOOSE k \in S : \A j \in S : j <= k

\* one row per full block, in the order of the blocks
ClaimedRows ==
    LET ends == SetToSortedSeq(FullBlocks)
    IN [i \in 1..Len(ends) |->
          [DATE |-> ClaimedDate(IcsLines[Last(DtstartsOf(ends[i]))]),
           SUMMARY |-> StripText(Tail(IcsLines[Last(SummariesOf(ends[i]))]))]]

\* the DTSTART lines after a BEGIN:VEVENT line with no END:VEVENT line between
OpenDtstarts ==
    {k \in 1..Len(IcsLines) :
        /\ IsDtstartLine(IcsLines[k])
        /\ \E b \in 1..(k - 1) :
              /\ IcsLines[b] = BeginEvent
              /\ \A j \in (b + 1)..(k - 1) : IcsLines[j] # EndEvent}

C10_WitnessSkipped ==
    /\ ics_pc = "done"
    /\ Cardinality(BlockEnds) = 2
    /\ Cardinality(FullBlocks) = 1
    /\ ics_result.kind = "rows"
    /\ Len(ics_result.rows) = 1

\* a DTSTART line whose value strptime rejects, inside a full block
C10_WitnessRaise ==
    /\ ics_pc = "done"
    /\ FullBlocks # {}
    /\ ics_result.kind = "raise"

(***************************************************************************)
(* pull_fomc_meetings (src/macro_events.py:163-240).                       *)
(*                                                                         *)
(* A date is the integer yyyymmdd.  A section is the list of the stripped, *)
(* non-empty lines of the page's "YYYY FOMC Meetings" chunk.               *)
(***************************************************************************)
\* macro_events.py:30-34
MONTHS(name) ==
    CASE name = "January" -> 1 [] name = "February" -> 2 [] name = "March" -> 3
      [] name = "April" -> 4 [] name = "May" -> 5 [] name = "June" -> 6
      [] name = "July" -> 7 [] name = "August" -> 8 [] name = "September" -> 9
      [] name = "October" -> 10 [] name = "November" -> 11
      [] name = "December" -> 12 [] OTHER -> 0

\* "notation" in day_line.lower(), on the lines of the model
HasNotation(day_line) == day_line \in {"Notation Vote", "(notation vote)"}

\* re.match(r"^(\d{1,2})\s*-\s*(\d{1,2})\*?$", day_line) on the lines of the
\* model: the two groups as integers, <<>> when there is no match
RngMatch(day_line) ==
    CASE day_line = "28-29" -> <<28, 29>>
      [] day_line = "30-31" -> <<30, 31>>
      [] day_line = "31 - 1*" -> <<31, 1>>
      [] OTHER -> <<>>

\* re.match(r"^(\d{1,2})\*?$", day_line) on the lines of the model
SingleMatch(day_line) ==
    CASE day_line = "29*" -> <<29>>
      [] OTHER -> <<>>

IsLeap(y) == (y % 4 = 0 /\ y % 100 # 0) \/ y % 400 = 0

DaysIn(y, m) ==
    IF m = 2 THEN (IF IsLeap(y) THEN 29 ELSE 28)
    ELSE IF m \in {4, 6, 9, 11} THEN 30 ELSE 31

\* datetime.date(y, m, d): the date, or NaN where the constructor raises
\* ValueError
Date(y, m, d) ==
    IF m \in 1..12 /\ d \in 1..DaysIn(y, m) THEN y * 10000 + m * 100 + d ELSE NaN

YearOf(d) == d \div 10000

DecisionDay == "FOMC decision day (scheduled)"

MeetingDay == "FOMC meeting (scheduled)"

\* the mutant of EndMonth: the month is not advanced when the range rolls over
EndMonthSame(mm, yy, d1, d2) == [mm |-> mm, yy |-> yy]

\* macro_events.py:208-213: the month and year the range ends in
EndMonth(mm, yy, d1, d2) ==
    IF d2 < d1
    THEN (IF mm + 1 = 13 THEN [mm |-> 1, yy |-> yy + 1] ELSE [mm |-> mm + 1, yy |-> yy])
    ELSE [mm |-> mm, yy |-> yy]

\* macro_events.py:201-229: what one month line and its day line append
MeetingOf(y, month, day_line) ==
    LET rng == RngMatch(day_line)
        single == SingleMatch(day_line)
    IN IF rng # <<>>
       THEN LET e == EndMonth(MONTHS(month), y, rng[1], rng[2])
            IN IF Date(e.yy, e.mm, rng[2]) = NaN THEN <<>>
               ELSE <<[date |-> Date(e.yy, e.mm, rng[2]), summary |-> DecisionDay]>>
       ELSE IF single # <<>>
            THEN (IF Date(y, MONTHS(month), single[1]) = NaN THEN <<>>
                  ELSE <<[date |-> Date(y, MONTHS(month), single[1]),
                          summary |-> MeetingDay]>>)
            ELSE <<>>

RECURSIVE ScanLines(_, _, _, _)
\* macro_events.py:189-232: the while loop over the lines of one section
ScanLines(lines, i, y, found) ==
    IF ~(i < Len(lines)) THEN found
    ELSE IF MONTHS(lines[i]) # 0
         THEN IF HasNotation(lines[i + 1])
              THEN ScanLines(lines, i + 2, y, found)
              ELSE ScanLines(lines, i + 2, y,
                             found \o MeetingOf(y, lines[i], lines[i + 1]))
         ELSE ScanLines(lines, i + 1, y, found)

RECURSIVE ScanYears(_, _, _, _)
\* macro_events.py:175-232: the loop over the years of the range
ScanYears(sections, y, last, found) ==
    IF y > last THEN found
    ELSE IF ~sections[y].found THEN ScanYears(sections, y + 1, last, found)
    ELSE ScanYears(sections, y + 1, last, ScanLines(sections[y].lines, 1, y, found))

RECURSIVE DropDuplicates(_)
\* DataFrame.drop_duplicates: the first of equal rows is kept
DropDuplicates(rows) ==
    IF rows = <<>> THEN <<>>
    ELSE LET init == DropDuplicates(SubSeq(rows, 1, Len(rows) - 1))
             r == rows[Len(rows)]
         IN IF \E j \in 1..Len(init) : init[j] = r THEN init ELSE Append(init, r)

RECURSIVE SortByDate(_)
\* DataFrame.sort_values("date"): an insertion sort that keeps equal dates
\* in their order
SortByDate(rows) ==
    IF rows = <<>> THEN <<>>
    ELSE LET init == SortByDate(SubSeq(rows, 1, Len(rows) - 1))
             r == rows[Len(rows)]
             before == SelectSeq(init, LAMBDA x : x.date <= r.date)
             after == SelectSeq(init, LAMBDA x : x.date > r.date)
         IN before \o <<r>> \o after

\* macro_events.py:234-240: the table built from the list
FomcTable(found, start_d, end_d) ==
    LET unique == DropDuplicates(found)
        inside == SelectSeq(unique, LAMBDA r : r.date >= start_d /\ r.date <= end_d)
        sorted == SortByDate(inside)
    IN [i \in 1..Len(sorted) |->
          [date |-> sorted[i].date, event |-> "FOMC", summary |-> sorted[i].summary]]

FomcLines == {"January", "February", "December", "28-29", "30-31", "31 - 1*",
              "29*", "Notation Vote", "(unscheduled)"}

FirstYear == 2024

FomcRanges == {[start_d |-> 20240101, end_d |-> 20241231],
               [start_d |-> 20240215, end_d |-> 20250131]}

NoSection == [found |-> FALSE, lines |-> <<>>]

FomcInit ==
    /\ fomc_range \in FomcRanges
    /\ \E first \in {NoSection}
                 \cup {[found |-> TRUE, lines |-> ls] :
                          ls \in SeqsUpTo(FomcLines, MaxFomcLines)},
          second \in {NoSection, [found |-> TRUE, lines |-> <<"February", "28-29">>]} :
          fomc_sections = (FirstYear :> first) @@ ((FirstYear + 1) :> second)
    /\ fomc_pc = "call"
    /\ meetings = <<>>
    /\ fomc_df = <<>>

PullFomcMeetings ==
    /\ fomc_pc = "call"
    /\ meetings' = ScanYears(fomc_sections, YearOf(fomc_range.start_d),
                             YearOf(fomc_range.end_d), <<>>)
    /\ fomc_df' = FomcTable(meetings', fomc_range.start_d, fomc_range.end_d)
    /\ fomc_pc' = "done"
    /\ UNCHANGED <<fomc_sections, fomc_range>>
    /\ UNCHANGED notFomc

FomcNext == PullFomcMeetings

InitFomc == FomcInit /\ FetchIdle /\ StreakIdle /\ RunIdle /\ CacheIdle /\ YesIdle /\ IcsIdle /\ PanelIdle /\ PolyIdle /\ DerivIdle /\ MacroIdle /\ CrossIdle /\ RsiIdle /\ MtabIdle

SpecFomc == InitFomc /\ [][FomcNext]_vars

\* the years the call looks at, and among them those whose section was found
FomcYears ==
    {y \in YearOf(fomc_range.start_d)..YearOf(fomc_range.end_d) : fomc_sections[y].found}

\* the day ranges of the model, as the claim reads them
ClaimedRange(day_line) ==
    CASE day_line = "28-29" -> [d1 |-> 28, d2 |-> 29]
      [] day_line = "30-31" -> [d1 |-> 30, d2 |-> 31]
      [] day_line = "31 - 1*" -> [d1 |-> 31, d2 |-> 1]
      [] OTHER -> [d1 |-> 0, d2 |-> 0]

\* day d2 of month M, or of the month after M when d2 < d1
ClaimedDecisionDay(y, month, day_line) ==
    LET r == ClaimedRange(day_line)
        m == MONTHS(month)
    IN IF r.d2 >= r.d1 THEN Date(y, m, r.d2)
       ELSE IF m = 12 THEN Date(y + 1, 1, r.d2)
       ELSE Date(y, m + 1, r.d2)

\* the positions of a section where a month line is followed by a day range
\* whose end day exists
ListedRanges(y) ==
    LET lines == fomc_sections[y].lines
    IN {k \in 1..(Len(lines) - 1) :
           /\ MONTHS(lines[k]) # 0
           /\ ClaimedRange(lines[k + 1]).d1 # 0
           /\ ClaimedDecisionDay(y, lines[k], lines[k + 1]) # NaN}

RecordedDecisionDays ==
    {meetings[j].date : j \in {i \in 1..Len(meetings) : meetings[i].summary = DecisionDay}}

C11_WitnessSameMonth ==
    /\ fomc_pc = "done"
    /\ fomc_sections[FirstYear].lines = <<"January", "28-29">>
    /\ 20240129 \in RecordedDecisionDays

(***************************************************************************)
(* fetch_prices_strict (src/macro_panel.py:30-95).                         *)
(*                                                                         *)
(* A dataframe yf.download returns is None, or a record of its columns:    *)
(* column name -> TRUE when the column holds a number, FALSE when it is    *)
(* all NaN; the empty dataframe has no columns.  A series remembers the    *)
(* ticker and the column it was taken from.                                *)
(***************************************************************************)
\* macro_panel.py:30-36, in the dictionary's insertion order
PANEL ==
    <<[label |-> "DXY", ticker |-> "DX-Y.NYB"],
      [label |-> "VIX", ticker |-> "^VIX"],
      [label |-> "S&P 500", ticker |-> "^GSPC"],
      [label |-> "Gold", ticker |-> "GC=F"],
      [label |-> "Oil", ticker |-> "CL=F"]>>

\* macro_panel.py:38
DISPLAY_ORDER == <<"DXY", "VIX", "S&P 500", "Gold", "Oil">>

NoneFrame == [kind |-> "none", empty |-> TRUE, cols |-> <<>>]

Frame(cols) == [kind |-> "frame", empty |-> cols = <<>>, cols |-> cols]

\* what yf.download can hand back for one ticker
Frames ==
    {NoneFrame, Frame(<<>>),
     Frame([c \in {"Volume"} |-> TRUE]),
     Frame([c \in {"Close"} |-> TRUE]),
     Frame([c \in {"Close"} |-> FALSE]),
     Frame([c \in {"Adj Close", "Close"} |-> TRUE]),
     Frame([c \in {"Adj Close", "Close"} |-> c = "Close"])}

\* macro_panel.py:48-53: the column picked, "" where it raises ValueError
pick_close(df) ==
    IF "Adj Close" \in DOMAIN df.cols THEN "Adj Close"
    ELSE IF "Close" \in DOMAIN df.cols THEN "Close"
    ELSE ""

\* the mutant of AllNaN: the all-NaN test is never true
AllNaNNever(df, col) == FALSE

\* macro_panel.py:78: s.dropna().empty
AllNaN(df, col) == ~df.cols[col]

\* macro_panel.py:94-95: [c for c in DISPLAY_ORDER if c in prices.columns]
OrderColumns(columns) ==
    LET kept == SelectSeq(DISPLAY_ORDER,
                          LAMBDA c : \E j \in 1..Len(columns) : columns[j].label = c)
    IN [i \in 1..Len(kept) |->
          columns[CHOOSE j \in 1..Len(columns) : columns[j].label = kept[i]]]

PanelInit ==
    /\ panel_i = 0
    /\ downloads = <<>>
    /\ panel_out = <<>>
    /\ panel_result = [kind |-> "pending"]

\* macro_panel.py:63-83: one pass of the loop over panel.items()
DownloadTicker ==
    /\ panel_result.kind = "pending"
    /\ panel_i < Len(PANEL)
    /\ \E df \in Frames :
         LET entry == PANEL[panel_i + 1]
         IN /\ downloads' = Append(downloads, df)
            /\ panel_i' = panel_i + 1
            /\ IF df.kind = "none" \/ df.empty
               THEN /\ panel_result' = [kind |-> "RuntimeError"]
                    /\ UNCHANGED panel_out
               ELSE IF pick_close(df) = ""
               THEN /\ panel_result' = [kind |-> "ValueError"]
                    /\ UNCHANGED panel_out
               ELSE IF AllNaN(df, pick_close(df))
               THEN /\ panel_result' = [kind |-> "RuntimeError"]
                    /\ UNCHANGED panel_out
               ELSE /\ panel_out' = Append(panel_out,
                                           [label |-> entry.label,
                                            ticker |-> entry.ticker,
                                            column |-> pick_close(df)])
                    /\ UNCHANGED panel_result
    /\ UNCHANGED notPanel

\* macro_panel.py:63: yf.download itself raises
DownloadRaises ==
    /\ panel_result.kind = "pending"
    /\ panel_i < Len(PANEL)
    /\ panel_i' = panel_i + 1
    /\ downloads' = Append(downloads, [kind |-> "raised", empty |-> TRUE, cols |-> <<>>])
    /\ panel_result' = [kind |-> "Exception"]
    /\ UNCHANGED panel_out
    /\ UNCHANGED notPanel

\* macro_panel.py:85-95: the table is built once the loop is through
ReturnPrices ==
    /\ panel_result.kind = "pending"
    /\ panel_i = Len(PANEL)
    /\ panel_result' = [kind |-> "table", columns |-> OrderColumns(panel_out)]
    /\ UNCHANGED <<panel_i, downloads, panel_out>>
    /\ UNCHANGED notPanel

PanelNext ==
    \/ DownloadTicker
    \/ DownloadRaises
    \/ ReturnPrices

InitPanel ==
    PanelInit /\ FetchIdle /\ StreakIdle /\ RunIdle /\ CacheIdle /\ YesIdle /\ IcsIdle /\ FomcIdle
    /\ PolyIdle /\ DerivIdle /\ MacroIdle /\ CrossIdle /\ RsiIdle /\ MtabIdle

SpecPanel == InitPanel /\ [][PanelNext]_vars

\* a download that gave no data, or whose close series is all NaN
NoUsableData(df) ==
    \/ df.kind = "none"
    \/ (df.kind = "frame" /\ df.cols = <<>>)
    \/ ("Adj Close" \in DOMAIN df.cols /\ ~df.cols["Adj Close"])
    \/ ("Adj Close" \notin DOMAIN df.cols /\ "Close" \in DOMAIN df.cols /\ ~df.cols["Close"])

\* C12: a returned price table has exactly one column per label of the panel,
\* named by the display labels in the order DXY, VIX, S&P 500, Gold, Oil, each
\* holding its own ticker's closes; a ticker with no data or an all-NaN close
\* series makes the call raise RuntimeError; no table is returned unless every
\* ticker delivered usable data.
C12_AllOrNothing ==
    /\ panel_result.kind = "table" =>
          /\ Len(downloads) = Len(PANEL)
          /\ \A i \in 1..Len(downloads) : ~NoUsableData(downloads[i])
          /\ [i \in 1..Len(panel_result.columns) |-> panel_result.columns[i].label]
                = <<"DXY", "VIX", "S&P 500", "Gold", "Oil">>
          /\ \A i \in 1..Len(panel_result.columns) :
                \E j \in 1..Len(PANEL) :
                   /\ PANEL[j].label = panel_result.columns[i].label
                   /\ PANEL[j].ticker = panel_result.columns[i].ticker
    /\ (\E i \in 1..Len(downloads) : NoUsableData(downloads[i])) =>
          panel_result.kind = "RuntimeError"

\* the five downloads succeeded and the table came back
C12_Witness ==
    /\ panel_result.kind = "table"
    /\ downloads[2] = Frame([c \in {"Adj Close", "Close"} |-> TRUE])
    /\ downloads[5] = Frame([c \in {"Close"} |-> TRUE])

\* four tickers were fine and the last one's picked close is all NaN
C12_WitnessRaise ==
    /\ Len(panel_out) = 4
    /\ Len(downloads) = 5
    /\ downloads[5] = Frame([c \in {"Adj Close", "Close"} |-> c = "Close"])
    /\ panel_result.kind = "RuntimeError"

(***************************************************************************)
(* The Polymarket tab, for one ticker (src/app.py:1006-1500).              *)
(*                                                                         *)
(* Times are in hours from 2026-11-02T00:00:00Z.  Dictionary fields are    *)
(* the python values of the extract_yes_probability section.               *)
(***************************************************************************)
\* datetime.fromisoformat(end_date_str.replace("Z", "+00:00")) on the strings
\* of the model: whether it parses, whether the result carries a time zone,
\* and the instant it denotes
FromIsoFormat(text) ==
    CASE text = "2026-11-02T23:00:00Z" -> [ok |-> TRUE, aware |-> TRUE, at |-> 23]
      [] text = "2026-11-03T01:00:00+02:00" -> [ok |-> TRUE, aware |-> TRUE, at |-> 23]
      [] text = "2026-11-03T00:00:00Z" -> [ok |-> TRUE, aware |-> TRUE, at |-> 24]
      [] text = "2026-11-01T12:00:00Z" -> [ok |-> TRUE, aware |-> TRUE, at |-> -12]
      [] text = "2026-12-01T00:00:00" -> [ok |-> TRUE, aware |-> FALSE, at |-> 696]
      [] OTHER -> [ok |-> FALSE, aware |-> FALSE, at |-> 0]

EndDates ==
    {PyNone, PyStr(""), PyStr("TBD"), PyStr("2026-11-02T23:00:00Z"),
     PyStr("2026-11-03T01:00:00+02:00"), PyStr("2026-11-03T00:00:00Z"),
     PyStr("2026-11-01T12:00:00Z"), PyStr("2026-12-01T00:00:00")}

Slugs == {"aapl-dec-2026", "aapl-2027"}

\* an event of a /public-search answer
Stubs == [slug : {PyNone} \cup {PyStr(sl) : sl \in Slugs}, endDate : EndDates]

Titles == {PyNone, PyStr("Will AAPL close above $250 in December?"),
           PyStr("Will AAPL hit $300?"), PyStr("Sanremo festival winner"),
           PyStr("Who will be AAPL CEO?")}

\* what get_event_by_slug returns: None, or the event of /events/slug/{slug}
FullEvents(slug) ==
    {[t |-> "none", slug |-> slug, title |-> PyNone, endDate |-> PyNone]}
    \cup {[t |-> "event", slug |-> slug, title |-> title, endDate |-> PyNone] :
             title \in Titles}
    \cup {[t |-> "event", slug |-> slug,
           title |-> PyStr("Will AAPL close above $250 in December?"),
           endDate |-> e] :
             e \in {PyStr("2026-11-03T00:00:00Z"), PyStr("2026-11-01T12:00:00Z")}}

\* 'hit' in event_title or 'hit' in event_slug (app.py:1386)
HasHit(ev) == ev.title.s = "Will AAPL hit $300?"

\* any(keyword in event_title or keyword in event_slug ...) (app.py:1390-1392)
HasUnwanted(ev) == ev.title.s = "Sanremo festival winner"

\* app.py:1109-1138: a keyword of allowed_keywords in title, slug, description
is_stock_prediction_event(ev) ==
    ev.title.s \in {"Will AAPL close above $250 in December?", "Will AAPL hit $300?"}

RECURSIVE DedupeBySlug(_, _)
\* app.py:1361-1368
DedupeBySlug(events, seen_slugs) ==
    IF events = <<>> THEN <<>>
    ELSE LET ev == Head(events)
         IN IF ev.slug.t = "str" /\ ev.slug.s # "" /\ ev.slug.s \notin seen_slugs
            THEN <<ev>> \o DedupeBySlug(Tail(events), seen_slugs \cup {ev.slug.s})
            ELSE DedupeBySlug(Tail(events), seen_slugs)

unique_events == DedupeBySlug(all_events, {})

\* the mutant of IsAfter: the comparison is not strict
IsAfterOrEqual(end_date, today) == end_date >= today

\* app.py:1377: end_date > today
IsAfter(end_date, today) == end_date > today

\* app.py:1373-1377: the stub has an endDate, it parses, and it compares as
\* later than today; comparing a date without time zone with today raises
\* TypeError, which the except clause turns into `continue`
PassesDateFilter(stub, today) ==
    /\ stub.endDate.t = "str"
    /\ stub.endDate.s # ""
    /\ FromIsoFormat(stub.endDate.s).ok
    /\ FromIsoFormat(stub.endDate.s).aware
    /\ IsAfter(FromIsoFormat(stub.endDate.s).at, today)

\* app.py:1381-1398: the full event passes the content filters (a title of
\* None raises AttributeError, caught at app.py:1400)
PassesContentFilter(ev) ==
    /\ ev.t = "event"
    /\ ev.title.t = "str"
    /\ ~HasHit(ev)
    /\ ~HasUnwanted(ev)
    /\ is_stock_prediction_event(ev)

PolyInit ==
    /\ poly_today \in {0, 23}
    /\ all_events \in {<<>>} \cup SeqsUpTo(Stubs, MaxEvents)
    /\ poly_pc = "filter"
    /\ poly_i = 0
    /\ future_events = <<>>
    /\ llm_enabled \in BOOLEAN
    /\ llm_result = [kind |-> "none"]
    /\ poly_shown = [captions |-> {}, events |-> <<>>]

\* app.py:1371-1401: one pass of the loop over unique_events
FilterEvent ==
    /\ poly_pc = "filter"
    /\ poly_i < Len(unique_events)
    /\ poly_i' = poly_i + 1
    /\ LET ev_stub == unique_events[poly_i + 1]
       IN IF PassesDateFilter(ev_stub, poly_today)
          THEN \E full_event \in FullEvents(ev_stub.slug.s) :
                  future_events' = IF PassesContentFilter(full_event)
                                   THEN Append(future_events, full_event)
                                   ELSE future_events
          ELSE UNCHANGED future_events
    /\ UNCHANGED <<poly_today, all_events, poly_pc, llm_enabled, llm_result, poly_shown>>
    /\ UNCHANGED notPoly

\* app.py:1403-1410: the loop is through
FilterDone ==
    /\ poly_pc = "filter"
    /\ poly_i = Len(unique_events)
    /\ poly_pc' = "llm"
    /\ UNCHANGED <<poly_today, all_events, poly_i, future_events, llm_enabled,
                   llm_result, poly_shown>>
    /\ UNCHANGED notPoly

\* what llm_filter_predictions_cached can give (llm_predictions.py:77-155):
\* a skipped result without API key, a result with the slugs the model named,
\* or an exception, which app.py:1424-1425 turns into an error entry
LlmResults ==
    {[kind |-> "result", skipped |-> TRUE, error |-> FALSE, related |-> {}],
     [kind |-> "result", skipped |-> FALSE, error |-> TRUE, related |-> {}]}
    \cup {[kind |-> "result", skipped |-> FALSE, error |-> FALSE, related |-> r] :
             r \in SUBSET ({PyNone} \cup {PyStr(sl) : sl \in Slugs})}

\* app.py:1412-1427
LlmFilter ==
    /\ poly_pc = "llm"
    /\ poly_pc' = "display"
    /\ IF llm_enabled /\ future_events # <<>>
       THEN llm_result' \in LlmResults
       ELSE UNCHANGED llm_result
    /\ UNCHANGED <<poly_today, all_events, poly_i, future_events, llm_enabled, poly_shown>>
    /\ UNCHANGED notPoly

\* app.py:1448: {r.get("slug") for r in related if r.get("slug")}
RelatedSlugs(res) == {r.s : r \in {x \in res.related : x.t = "str" /\ x.s # ""}}

\* app.py:1449-1453: the events are filtered only when related_slugs is not
\* empty
KeepRelated(events, related_slugs) ==
    IF related_slugs # {}
    THEN SelectSeq(events, LAMBDA ev : ev.slug \in related_slugs)
    ELSE events

\* app.py:1429-1500: the results for the ticker
DisplayTicker ==
    /\ poly_pc = "display"
    /\ poly_pc' = "done"
    /\ IF future_events = <<>>
       THEN poly_shown' = [captions |-> {"No future events found"}, events |-> <<>>]
       ELSE LET filtering == llm_enabled /\ llm_result.kind = "result"
                failed == filtering /\ llm_result.error
                events == IF filtering /\ ~failed
                          THEN KeepRelated(future_events, RelatedSlugs(llm_result))
                          ELSE future_events
                captions ==
                    (IF filtering /\ ~failed /\ RelatedSlugs(llm_result) # {}
                     THEN {"LLM matched"} ELSE {})
                    \cup (IF filtering /\ ~failed /\ RelatedSlugs(llm_result) = {}
                          THEN {"LLM found no related events for this symbol."} ELSE {})
                    \cup (IF failed THEN {"LLM filtering error"} ELSE {})
                    \cup (IF events = <<>>
                          THEN {"No related prediction events to display."} ELSE {})
            IN poly_shown' = [captions |-> captions, events |-> events]
    /\ UNCHANGED <<poly_today, all_events, poly_i, future_events, llm_enabled, llm_result>>
    /\ UNCHANGED notPoly

PolyNext ==
    \/ FilterEvent
    \/ FilterDone
    \/ LlmFilter
    \/ DisplayTicker

InitPoly ==
    PolyInit /\ FetchIdle /\ StreakIdle /\ RunIdle /\ CacheIdle /\ YesIdle /\ IcsIdle
    /\ FomcIdle /\ PanelIdle /\ DerivIdle /\ MacroIdle /\ CrossIdle /\ RsiIdle /\ MtabIdle

SpecPoly == InitPoly /\ [][PolyNext]_vars

\* the end dates that denote an instant, and the instant (hours)
ClaimedInstant(endDate) ==
    IF endDate.t # "str" THEN NaN
    ELSE CASE endDate.s = "2026-11-02T23:00:00Z" -> 23
           [] endDate.s = "2026-11-03T01:00:00+02:00" -> 23
           [] endDate.s = "2026-11-03T00:00:00Z" -> 24
           [] endDate.s = "2026-11-01T12:00:00Z" -> -12
           [] OTHER -> NaN

IsFuture(endDate) == ClaimedInstant(endDate) # NaN /\ ClaimedInstant(endDate) > poly_today

C20_OnlyRelatedEventsShown ==
    (/\ poly_pc = "done"
     /\ llm_enabled
     /\ llm_result.kind = "result"
     /\ ~llm_result.error) =>
        /\ \A i \in 1..Len(poly_shown.events) :
              PyStr(poly_shown.events[i].slug) \in llm_result.related
        /\ RelatedSlugs(llm_result) = {} =>
              /\ "LLM found no related events for this symbol." \in poly_shown.captions
              /\ poly_shown.events = <<>>

(***************************************************************************)
(* compute_derivatives_metrics (src/src/derivatives.py:15-92) and the      *)
(* sentiment card of the Funding tab (src/app.py:745-751).                 *)
(*                                                                         *)
(* Funding rates are integers in units of 1e-7, times are seconds, the     *)
(* annualized values are exact rationals in units of 1e-7, tanh is in      *)
(* units of 1e-5 and the long/short ratios are in units of 1e-6.           *)
(***************************************************************************)
RatMul(a, b) == Rat(a.n * b.n, a.d * b.d)

RatLess(a, b) == a.n * b.d < b.n * a.d

RatMax(a, b) == IF RatLess(a, b) THEN b ELSE a

NaNRat == [n |-> NaN, d |-> 0]

\* the rows of a column that are not NaN
DropNa(series) == SelectSeq(series, LAMBDA x : x # NaN)

\* Series.mean(): NaN rows are skipped, the mean of nothing is NaN
Mean(series) ==
    IF DropNa(series) = <<>> THEN NaNRat
    ELSE Rat(Sum(DropNa(series)), Len(DropNa(series)))

RatesOf(df) == [i \in 1..Len(df) |-> df[i].funding_rate]

RECURSIVE SortInts(_)
\* Series.sort_values() on integers
SortInts(series) ==
    IF series = <<>> THEN <<>>
    ELSE LET init == SortInts(SubSeq(series, 1, Len(series) - 1))
             x == series[Len(series)]
         IN SelectSeq(init, LAMBDA y : y <= x) \o <<x>> \o SelectSeq(init, LAMBDA y : y > x)

\* derivatives.py:33-38: the median of the differences of the sorted times,
\* in hours
IntervalHours(df) ==
    IF Len(df) >= 2
    THEN LET times == SortInts([i \in 1..Len(df) |-> df[i].time])
             diffs == SortInts([i \in 1..(Len(df) - 1) |-> times[i + 1] - times[i]])
             k == Len(diffs)
             median == IF k % 2 = 1 THEN Rat(diffs[(k + 1) \div 2], 1)
                       ELSE Rat(diffs[k \div 2] + diffs[k \div 2 + 1], 2)
         IN RatMul(median, Rat(1, 3600))
    ELSE Rat(1, 1)

\* derivatives.py:40: 24.0 * 365.0 / max(interval_hours, 0.1)
AnnualFactor(df) ==
    LET h == RatMax(IntervalHours(df), Rat(1, 10))
    IN Rat(8760 * h.d, h.n)

\* np.tanh(mean_funding_rate * 5000), in units of 1e-5: linear between the
\* values of tanh at 0, 0.001, 0.5, 1, 2, 5 and 20, where it is 1.0 in double
\* precision; the argument is m / 2000 for a mean rate m in units of 1e-7
TanhKnots ==
    <<[m |-> 0, v |-> 0], [m |-> 2, v |-> 99], [m |-> 1000, v |-> 46211],
      [m |-> 2000, v |-> 76159], [m |-> 4000, v |-> 96402],
      [m |-> 10000, v |-> 99990], [m |-> 40000, v |-> 100000]>>

TanhPositive(m) ==
    IF ~RatLess(m, Rat(40000, 1)) THEN 100000
    ELSE LET k == CHOOSE j \in 1..(Len(TanhKnots) - 1) :
                     /\ ~RatLess(m, Rat(TanhKnots[j].m, 1))
                     /\ RatLess(m, Rat(TanhKnots[j + 1].m, 1))
             lo == TanhKnots[k]
             hi == TanhKnots[k + 1]
         IN lo.v + ((hi.v - lo.v) * (m.n - lo.m * m.d)) \div ((hi.m - lo.m) * m.d)

Tanh(m) == IF m.n < 0 THEN -TanhPositive(Rat(-m.n, m.d)) ELSE TanhPositive(m)

\* the mutant of LongRatio: the sign of the funding term is inverted
LongRatioInverted(normalized) == 500000 - 3 * normalized

\* derivatives.py:77: 0.5 + (normalized * 0.3)
LongRatio(normalized) == 500000 + 3 * normalized

Clamp(lo, hi, x) == IF x < lo THEN lo ELSE IF x > hi THEN hi ELSE x

\* derivatives.py:72-80
EstimatedLongRatio(mean_funding_rate) ==
    IF mean_funding_rate # NaNRat /\ RatLess(Rat(1, 1), Rat(Abs(mean_funding_rate.n),
                                                          mean_funding_rate.d))
    THEN Clamp(200000, 800000, LongRatio(Tanh(mean_funding_rate)))
    ELSE 500000

\* the mutant of FundingComment: the bands are closed at the other end
FundingCommentClosed(f) ==
    IF f = NaNRat THEN "Funding data unavailable."
    ELSE IF ~RatLess(f, Rat(5000000, 1)) THEN "Extremely high positive funding"
    ELSE IF ~RatLess(f, Rat(1000000, 1)) THEN "Moderately positive funding"
    ELSE IF ~RatLess(Rat(-5000000, 1), f) THEN "Deeply negative funding"
    ELSE IF ~RatLess(Rat(-1000000, 1), f) THEN "Moderately negative funding"
    ELSE "Funding near neutral"

\* derivatives.py:56-68
FundingComment(f) ==
    IF f = NaNRat THEN "Funding data unavailable."
    ELSE IF RatLess(Rat(5000000, 1), f) THEN "Extremely high positive funding"
    ELSE IF RatLess(Rat(1000000, 1), f) THEN "Moderately positive funding"
    ELSE IF RatLess(f, Rat(-5000000, 1)) THEN "Deeply negative funding"
    ELSE IF RatLess(f, Rat(-1000000, 1)) THEN "Moderately negative funding"
    ELSE "Funding near neutral"

\* derivatives.py:15-92
compute_derivatives_metrics(funding_df) ==
    IF funding_df = <<>>
    THEN [kind |-> "metrics", mean_funding_annualized |-> PyNone,
          funding_comment |-> "No funding data available.",
          estimated_long_ratio |-> 500000, estimated_short_ratio |-> 500000]
    ELSE LET mean_funding_rate == Mean(RatesOf(funding_df))
             annualized == IF mean_funding_rate = NaNRat THEN NaNRat
                           ELSE RatMul(mean_funding_rate, AnnualFactor(funding_df))
             long == EstimatedLongRatio(mean_funding_rate)
         IN [kind |-> "metrics",
             mean_funding_annualized |-> [t |-> "num", v |-> annualized],
             funding_comment |-> FundingComment(annualized),
             estimated_long_ratio |-> long,
             estimated_short_ratio |-> 1000000 - long]

Rates == {NaN, 0, 1, -2, 1000, -1000, 5000, -5000, 50000}

\* the seconds between two funding payments
FundingSteps == {3600, 31536}

\* the funding history as the API lists it, newest first
FundingRows(step, rates) ==
    [i \in 1..Len(rates) |-> [time |-> (Len(rates) - i) * step, funding_rate |-> rates[i]]]

DerivInit ==
    /\ funding_hist \in {<<>>}
          \cup {FundingRows(step, rates) :
                   step \in FundingSteps, rates \in SeqsUpTo(Rates, MaxFunding)}
    /\ deriv_pc = "call"
    /\ deriv_metrics = [kind |-> "none"]
    /\ sentiment_card = ""

ComputeDerivativesMetrics ==
    /\ deriv_pc = "call"
    /\ deriv_metrics' = compute_derivatives_metrics(funding_hist)
    /\ deriv_pc' = "card"
    /\ UNCHANGED <<funding_hist, sentiment_card>>
    /\ UNCHANGED notDeriv

\* app.py:745-751: comparisons with NaN are false
SentimentCard(dm) ==
    IF dm.mean_funding_annualized.t = "none" THEN ""
    ELSE LET f == dm.mean_funding_annualized.v
         IN IF f # NaNRat /\ RatLess(Rat(1000000, 1), f) THEN "BULLISH"
            ELSE IF f # NaNRat /\ RatLess(f, Rat(-1000000, 1)) THEN "BEARISH"
            ELSE "NEUTRAL"

RenderSentimentCard ==
    /\ deriv_pc = "card"
    /\ sentiment_card' = SentimentCard(deriv_metrics)
    /\ deriv_pc' = "done"
    /\ UNCHANGED <<funding_hist, deriv_metrics>>
    /\ UNCHANGED notDeriv

DerivNext ==
    \/ ComputeDerivativesMetrics
    \/ RenderSentimentCard

InitDeriv ==
    DerivInit /\ FetchIdle /\ StreakIdle /\ RunIdle /\ CacheIdle /\ YesIdle /\ IcsIdle
    /\ FomcIdle /\ PanelIdle /\ PolyIdle /\ MacroIdle /\ CrossIdle /\ RsiIdle /\ MtabIdle

SpecDeriv == InitDeriv /\ [][DerivNext]_vars

\* the history's rates that are numbers, and the sign of their mean
\* (0 for an empty history or one without a number)
KnownRates == DropNa(RatesOf(funding_hist))

MeanSign == IF KnownRates = <<>> THEN 0 ELSE Sign(Sum(KnownRates))

\* the mean rate's magnitude is at most 1e-7 (one unit)
MeanIsTiny == KnownRates = <<>> \/ Abs(Sum(KnownRates)) <= Len(KnownRates)

\* C14: for every funding history, estimated_long_ratio lies within [0.2, 0.8]
\* and estimated_short_ratio is 1 - estimated_long_ratio; the long ratio is
\* above 0.5 only when the mean funding rate is positive, below 0.5 only when
\* it is negative, and exactly 0.5 when the history is empty or the mean
\* rate's magnitude is at most 1e-7.
C14_LongRatioBoundedAndSigned ==
    deriv_metrics.kind = "metrics" =>
        /\ deriv_metrics.estimated_long_ratio >= 200000
        /\ deriv_metrics.estimated_long_ratio <= 800000
        /\ deriv_metrics.estimated_short_ratio
              = 1000000 - deriv_metrics.estimated_long_ratio
        /\ deriv_metrics.estimated_long_ratio > 500000 => MeanSign = 1
        /\ deriv_metrics.estimated_long_ratio < 500000 => MeanSign = -1
        /\ (funding_hist = <<>> \/ MeanIsTiny) =>
              deriv_metrics.estimated_long_ratio = 500000

\* a mean rate of 5e-3 saturates the long ratio at 0.8
C14_Witness ==
    /\ deriv_metrics.kind = "metrics"
    /\ Len(funding_hist) = 2
    /\ MeanSign = 1
    /\ deriv_metrics.estimated_long_ratio = 800000
    /\ deriv_metrics.estimated_short_ratio = 200000

\* a negative mean just beyond the threshold moves the ratio below 0.5
C14_WitnessNegative ==
    /\ deriv_metrics.kind = "metrics"
    /\ RatesOf(funding_hist) = <<-2, NaN>>
    /\ deriv_metrics.estimated_long_ratio < 500000

\* a mean rate of exactly 1e-7 leaves the ratio at 0.5
C14_WitnessThreshold ==
    /\ deriv_metrics.kind = "metrics"
    /\ RatesOf(funding_hist) = <<1>>
    /\ deriv_metrics.estimated_long_ratio = 500000

\* the annualized mean funding value the metrics carry, when it is a finite
\* number
HasFiniteFunding ==
    /\ deriv_metrics.kind = "metrics"
    /\ deriv_metrics.mean_funding_annualized.t = "num"
    /\ deriv_metrics.mean_funding_annualized.v # NaNRat

\* the bands of the Funding Rate Guide (app.py:705-716) for a value n/d in
\* units of 1e-7, d > 0, as a set of the band names that apply
GuideBands(f) ==
    {b \in {"extreme", "positive", "neutral", "negative", "deep"} :
        \/ b = "extreme" /\ f.n > 5000000 * f.d
        \/ b = "positive" /\ f.n > 1000000 * f.d /\ f.n <= 5000000 * f.d
        \/ b = "neutral" /\ f.n >= -1000000 * f.d /\ f.n <= 1000000 * f.d
        \/ b = "negative" /\ f.n >= -5000000 * f.d /\ f.n < -1000000 * f.d
        \/ b = "deep" /\ f.n < -5000000 * f.d}

GuideComment ==
    [extreme |-> "Extremely high positive funding",
     positive |-> "Moderately positive funding",
     neutral |-> "Funding near neutral",
     negative |-> "Moderately negative funding",
     deep |-> "Deeply negative funding"]

GuideCard ==
    [extreme |-> "BULLISH", positive |-> "BULLISH", neutral |-> "NEUTRAL",
     negative |-> "BEARISH", deep |-> "BEARISH"]

\* C15: for every finite annualized mean funding value f exactly one band of
\* the Funding Rate Guide applies (f > +50%, +10% < f <= +50%,
\* -10% <= f <= +10%, -50% <= f < -10%, f < -50%), the funding comment is the
\* one of that band, and the sentiment card, once rendered, is BULLISH for
\* the two positive bands, NEUTRAL for the middle band and BEARISH for the
\* two negative bands.
C15_CommentAndCardFollowGuide ==
    HasFiniteFunding =>
        LET f == deriv_metrics.mean_funding_annualized.v
        IN /\ Cardinality(GuideBands(f)) = 1
           /\ \A b \in GuideBands(f) :
                 /\ deriv_metrics.funding_comment = GuideComment[b]
                 /\ deriv_pc = "done" => sentiment_card = GuideCard[b]

\* a value of exactly +50% is commented as moderately positive and shown as
\* BULLISH
C15_Witness ==
    /\ HasFiniteFunding
    /\ deriv_pc = "done"
    /\ deriv_metrics.mean_funding_annualized.v = Rat(5000000, 1)
    /\ deriv_metrics.funding_comment = "Moderately positive funding"
    /\ sentiment_card = "BULLISH"

\* a value of exactly -10% is commented as near neutral and shown as NEUTRAL
C15_WitnessNeutralEdge ==
    /\ HasFiniteFunding
    /\ deriv_pc = "done"
    /\ deriv_metrics.mean_funding_annualized.v = Rat(-1000000, 1)
    /\ deriv_metrics.funding_comment = "Funding near neutral"
    /\ sentiment_card = "NEUTRAL"

\* a value below -50% is commented as deeply negative and shown as BEARISH
C15_WitnessDeep ==
    /\ HasFiniteFunding
    /\ deriv_pc = "done"
    /\ deriv_metrics.funding_comment = "Deeply negative funding"
    /\ sentiment_card = "BEARISH"

(***************************************************************************)
(* macro_events.py: pull_all_macro_events and main.                        *)
(***************************************************************************)

\* the order of the event names under sort_values(["date", "event"])
EventRank == [CPI |-> 1, FOMC |-> 2, PCE |-> 3, PPI |-> 4]

\* macro_events.py:235-240, 128-146, 157-161: a source's table holding n
\* events inside the range, on the days n, n-1, .., 1; the kinds alternate
\* where the source has two of them
SourceTable(kinds, n) ==
    [i \in 1..n |-> [date |-> n + 1 - i, event |-> kinds[(i % Len(kinds)) + 1]]]

SourceKinds == <<(<<"FOMC">>), (<<"CPI", "PPI">>), (<<"PCE">>)>>

\* DataFrame.empty
IsEmpty(p) == p = <<>>

\* pd.concat(objs, ignore_index=True): raises ValueError("No objects to
\* concatenate") on an empty list
Concat(objs) ==
    IF objs = <<>> THEN [kind |-> "raise", exc |-> "ValueError"]
    ELSE [kind |-> "frame", rows |-> Flatten(objs)]

RECURSIVE SortByDateEvent(_)
\* DataFrame.sort_values(["date", "event"])
SortByDateEvent(rows) ==
    IF rows = <<>> THEN <<>>
    ELSE LET init == SortByDateEvent(SubSeq(rows, 1, Len(rows) - 1))
             r == rows[Len(rows)]
             Leq(x, y) == \/ x.date < y.date
                          \/ x.date = y.date /\ EventRank[x.event] <= EventRank[y.event]
         IN SelectSeq(init, LAMBDA x : Leq(x, r)) \o <<r>>
               \o SelectSeq(init, LAMBDA x : ~Leq(x, r))

\* macro_events.py:243-257
pull_all_macro_events(parts) ==
    LET df == Concat(SelectSeq(parts, LAMBDA p : ~IsEmpty(p)))
    IN IF df.kind = "raise" THEN df
       ELSE IF IsEmpty(df.rows) THEN df
       ELSE [kind |-> "frame", rows |-> SortByDateEvent(df.rows)]

MacroInit ==
    /\ macro_parts \in
          {[k \in 1..3 |-> SourceTable(SourceKinds[k], n[k])] :
              n \in [1..3 -> 0..MaxSourceEvents]}
    /\ save_args \in [csv : BOOLEAN, json : BOOLEAN]
    /\ macro_pc = "call"
    /\ macro_df = [kind |-> "none"]
    /\ stdout = <<>>
    /\ files = {}

\* macro_events.py:268: df = pull_all_macro_events(args.start, args.end); an
\* exception leaves main
PullAllMacroEvents ==
    /\ macro_pc = "call"
    /\ macro_df' = pull_all_macro_events(macro_parts)
    /\ macro_pc' = IF macro_df'.kind = "raise" THEN "raised" ELSE "print"
    /\ UNCHANGED <<macro_parts, save_args, stdout, files>>
    /\ UNCHANGED notMacro

\* macro_events.py:270-272
PrintPulled ==
    /\ macro_pc = "print"
    /\ stdout' = <<[text |-> "Pulled", n |-> Len(macro_df.rows)]>>
                    \o (IF ~IsEmpty(macro_df.rows) THEN <<[text |-> "tail", n |-> 20]>>
                        ELSE <<>>)
    /\ macro_pc' = "save"
    /\ UNCHANGED <<macro_parts, save_args, macro_df, files>>
    /\ UNCHANGED notMacro

\* macro_events.py:274-280
SaveFiles ==
    /\ macro_pc = "save"
    /\ files' = (IF save_args.csv THEN {"csv"} ELSE {})
                   \cup (IF save_args.json THEN {"json"} ELSE {})
    /\ macro_pc' = "done"
    /\ UNCHANGED <<macro_parts, save_args, macro_df, stdout>>
    /\ UNCHANGED notMacro

MacroNext ==
    \/ PullAllMacroEvents
    \/ PrintPulled
    \/ SaveFiles

InitMacro ==
    MacroInit /\ FetchIdle /\ StreakIdle /\ RunIdle /\ CacheIdle /\ YesIdle /\ IcsIdle
    /\ FomcIdle /\ PanelIdle /\ PolyIdle /\ DerivIdle /\ CrossIdle /\ RsiIdle /\ MtabIdle

SpecMacro == InitMacro /\ [][MacroNext]_vars

\* no source yields an event inside [start, end]
NoSourceYields == \A k \in 1..3 : macro_parts[k] = <<>>

\* the files the command line was asked to write
RequestedFiles ==
    (IF save_args.csv THEN {"csv"} ELSE {}) \cup (IF save_args.json THEN {"json"} ELSE {})

\* C16: when none of the three sources yields an event inside [start, end],
\* pull_all_macro_events returns an empty table without raising, and the
\* command line prints 'Pulled 0 events' and writes the requested CSV/JSON.
C16_NoEventsGivesEmptyTable ==
    (NoSourceYields /\ macro_pc # "call") =>
        /\ macro_df = [kind |-> "frame", rows |-> <<>>]
        /\ macro_pc \in {"print", "save", "done"}
        /\ macro_pc \in {"save", "done"} => stdout = <<[text |-> "Pulled", n |-> 0]>>
        /\ macro_pc = "done" => files = RequestedFiles

(***************************************************************************)
(* polymarket_price_predictions.py: what safe_json_list returns.           *)
(***************************************************************************)

\* C17: safe_json_list returns a list for every input: [] for None, for a
\* blank string and for a string that is not JSON even with its single
\* quotes replaced; the list itself for a list; the parsed list for a list
\* string; and a string holding valid JSON that is not a list (an object, a
\* number) does not make it return a non-list.
C17_SafeJsonListReturnsList ==
    \A field \in {market.outcomes, market.outcomePrices} :
        /\ safe_json_list(field).t = "list"
        /\ field.t = "none" => safe_json_list(field).v = <<>>
        /\ field.t = "list" => safe_json_list(field) = field
        /\ (field.t = "str" /\ Strip(field.s) \in {"", "n/a"}) =>
              safe_json_list(field).v = <<>>

(***************************************************************************)
(* technicals.py: detect_cross_events.                                     *)
(***************************************************************************)

\* sma50 - sma200 on series over the same candles: NaN where either is NaN
SeriesSub(a, b) ==
    [i \in 1..Len(a) |-> IF a[i] = NaN \/ b[i] = NaN THEN NaN ELSE a[i] - b[i]]

\* Series.tail(n)
TailRows(series, n) ==
    IF Len(series) <= n THEN series ELSE SubSeq(series, Len(series) - n + 1, Len(series))

\* the mutant of CrossUp: a rise from below zero only
CrossUpStrict(prev, cur) == prev < 0 /\ cur > 0

\* technicals.py:58
CrossUp(prev, cur) == prev <= 0 /\ cur > 0

\* technicals.py:60
CrossDown(prev, cur) == prev >= 0 /\ cur < 0

\* technicals.py:46-62
detect_cross_events(s50, s200, n) ==
    IF s50 = <<>> \/ s200 = <<>> THEN [kind |-> "flags", golden |-> FALSE, death |-> FALSE]
    ELSE LET diff == SeriesSub(s50, s200)
             recent == DropNa(TailRows(diff, n))
         IN IF Len(recent) < 2 THEN [kind |-> "flags", golden |-> FALSE, death |-> FALSE]
            ELSE LET sign == [i \in 1..Len(recent) |-> Sign(recent[i])]
                     pairs == 1..(Len(sign) - 1)
                 IN [kind |-> "flags",
                     golden |-> \E i \in pairs : CrossUp(sign[i], sign[i + 1]),
                     death |-> \E i \in pairs : CrossDown(sign[i], sign[i + 1])]

Sma50Values == {NaN, 1, 2, 3}

Sma200Values == {NaN, 2}

CrossInit ==
    /\ \E len \in 0..MaxCandles :
          /\ sma50 \in [1..len -> Sma50Values]
          /\ sma200 \in [1..len -> Sma200Values]
    /\ lookback \in 1..MaxLookback
    /\ cross_pc = "call"
    /\ cross_flags = [kind |-> "none"]
    /\ cross_card = ""

DetectCrossEvents ==
    /\ cross_pc = "call"
    /\ cross_flags' = detect_cross_events(sma50, sma200, lookback)
    /\ cross_pc' = "card"
    /\ UNCHANGED <<sma50, sma200, lookback, cross_card>>
    /\ UNCHANGED notCross

\* app.py:636-642
RenderCrossCard ==
    /\ cross_pc = "card"
    /\ cross_card' = IF cross_flags.golden THEN "Golden Cross!"
                     ELSE IF cross_flags.death THEN "Death Cross!"
                     ELSE "No Cross Signal"
    /\ cross_pc' = "done"
    /\ UNCHANGED <<sma50, sma200, lookback, cross_flags>>
    /\ UNCHANGED notCross

CrossNext ==
    \/ DetectCrossEvents
    \/ RenderCrossCard

InitCross ==
    CrossInit /\ FetchIdle /\ StreakIdle /\ RunIdle /\ CacheIdle /\ YesIdle /\ IcsIdle
    /\ FomcIdle /\ PanelIdle /\ PolyIdle /\ DerivIdle /\ MacroIdle /\ RsiIdle /\ MtabIdle

SpecCross == InitCross /\ [][CrossNext]_vars

\* the candles among the last `lookback` at which sma50 - sma200 is a number
KnownCandles ==
    {i \in 1..Len(sma50) : i > Len(sma50) - lookback /\ sma50[i] # NaN /\ sma200[i] # NaN}

\* two known candles with no known candle between them
AdjacentKnown(i, j) ==
    /\ i \in KnownCandles /\ j \in KnownCandles /\ i < j
    /\ \A k \in KnownCandles : ~(i < k /\ k < j)

\* C18: golden is true exactly when, among the non-missing values of
\* sma50 - sma200 in the last `lookback` candles, some adjacent pair goes
\* from <= 0 to > 0, and death exactly when some adjacent pair goes from
\* >= 0 to < 0; with fewer than two such values both are false.
C18_FlagsAreSignChanges ==
    cross_flags.kind = "flags" =>
        /\ cross_flags.golden <=>
              \E i, j \in KnownCandles :
                  /\ AdjacentKnown(i, j)
                  /\ sma50[i] - sma200[i] <= 0 /\ sma50[j] - sma200[j] > 0
        /\ cross_flags.death <=>
              \E i, j \in KnownCandles :
                  /\ AdjacentKnown(i, j)
                  /\ sma50[i] - sma200[i] >= 0 /\ sma50[j] - sma200[j] < 0
        /\ Cardinality(KnownCandles) < 2 =>
              ~cross_flags.golden /\ ~cross_flags.death

\* both flags true in one window: the difference rises and falls again
C18_Witness ==
    /\ cross_flags.kind = "flags"
    /\ cross_flags.golden /\ cross_flags.death
    /\ sma50 = <<NaN, 1, 3, 1>> /\ sma200 = <<2, 2, 2, 2>> /\ lookback = 3
    /\ cross_card = "Golden Cross!"

\* a fall seen across a missing candle
C18_WitnessAcrossMissing ==
    /\ cross_flags.kind = "flags"
    /\ ~cross_flags.golden /\ cross_flags.death
    /\ sma50 = <<2, NaN, 1>> /\ sma200 = <<2, 2, 2>> /\ lookback = 3
    /\ cross_card = "Death Cross!"

\* a rise from exactly zero counts as a golden cross
C18_WitnessFromZero ==
    /\ cross_flags.kind = "flags"
    /\ cross_flags.golden /\ ~cross_flags.death
    /\ Len(sma50) = 2
    /\ sma50 = <<2, 3>> /\ sma200 = <<2, 2>>

\* a sign change that lies before the last `lookback` candles is not seen
C18_WitnessOutsideWindow ==
    /\ cross_flags.kind = "flags"
    /\ ~cross_flags.golden /\ ~cross_flags.death
    /\ sma50 = <<1, 3, 3>> /\ sma200 = <<2, 2, 2>> /\ lookback = 2
    /\ cross_card = "No Cross Signal"

(***************************************************************************)
(* technicals.py: compute_rsi.  Prices are integers or NaN; the averages   *)
(* and the RSI are exact rationals, NaNRat standing for NaN.               *)
(***************************************************************************)

RatAdd(a, b) == Rat(a.n * b.d + b.n * a.d, a.d * b.d)

\* a / b for b # 0, cancelling the common factor of the denominators first
RatDiv(a, b) ==
    LET k == Gcd(a.d, b.d)
    IN Rat(a.n * (b.d \div k), (a.d \div k) * b.n)

\* technicals.py:15: delta.where(delta > 0, 0.0); NaN > 0 is false
Gain(delta) == [i \in 1..Len(delta) |-> IF delta[i] # NaN /\ delta[i] > 0 THEN delta[i] ELSE 0]

\* technicals.py:16: -delta.where(delta < 0, 0.0)
Loss(delta) == [i \in 1..Len(delta) |-> IF delta[i] # NaN /\ delta[i] < 0 THEN -delta[i] ELSE 0]

RECURSIVE Ewm(_, _)
\* Series.ewm(alpha=1.0 / p, adjust=False).mean():
\* y[1] = x[1], y[t] = (1 - alpha) * y[t-1] + alpha * x[t]
Ewm(xs, p) ==
    IF xs = <<>> THEN <<>>
    ELSE IF Len(xs) = 1 THEN <<Rat(xs[1], 1)>>
    ELSE LET init == Ewm(SubSeq(xs, 1, Len(xs) - 1), p)
         IN Append(init, RatAdd(RatMul(Rat(p - 1, p), init[Len(init)]),
                                Rat(xs[Len(xs)], p)))

\* technicals.py:21: avg_gain / avg_loss.replace(0, np.nan)
RelativeStrength(avg_gain, avg_loss) ==
    IF avg_loss.n = 0 THEN NaNRat ELSE RatDiv(avg_gain, avg_loss)

\* the mutant of Rsi: without the complement to 100
RsiNoComplement(rs) ==
    IF rs = NaNRat THEN NaNRat
    ELSE RatDiv(Rat(100, 1), RatAdd(Rat(1, 1), rs))

\* technicals.py:22: 100.0 - (100.0 / (1.0 + rs))
Rsi(rs) ==
    IF rs = NaNRat THEN NaNRat
    ELSE RatSub(Rat(100, 1), RatDiv(Rat(100, 1), RatAdd(Rat(1, 1), rs)))

\* technicals.py:12-23
compute_rsi(series, p) ==
    LET delta == Diff(series)
        avg_gain == Ewm(Gain(delta), p)
        avg_loss == Ewm(Loss(delta), p)
    IN [i \in 1..Len(series) |-> Rsi(RelativeStrength(avg_gain[i], avg_loss[i]))]

Prices == {NaN, 1, 2, 3}

Periods == {2, 14}

RsiInit ==
    /\ rsi_close \in SeqsUpTo(Prices, MaxCandles)
    /\ period \in Periods
    /\ rsi_pc = "call"
    /\ rsi_series = <<>>

ComputeRsi ==
    /\ rsi_pc = "call"
    /\ rsi_series' = compute_rsi(rsi_close, period)
    /\ rsi_pc' = "done"
    /\ UNCHANGED <<rsi_close, period>>
    /\ UNCHANGED notRsi

RsiNext == ComputeRsi

InitRsi ==
    RsiInit /\ FetchIdle /\ StreakIdle /\ RunIdle /\ CacheIdle /\ YesIdle /\ IcsIdle
    /\ FomcIdle /\ PanelIdle /\ PolyIdle /\ DerivIdle /\ MacroIdle /\ CrossIdle /\ MtabIdle

SpecRsi == InitRsi /\ [][RsiNext]_vars

\* the rise and the fall of the price at candle t (0 at the first candle
\* and next to a missing price)
Rise(t) ==
    IF t > 1 /\ rsi_close[t] # NaN /\ rsi_close[t - 1] # NaN /\ rsi_close[t] > rsi_close[t - 1]
    THEN rsi_close[t] - rsi_close[t - 1] ELSE 0

Fall(t) ==
    IF t > 1 /\ rsi_close[t] # NaN /\ rsi_close[t - 1] # NaN /\ rsi_close[t] < rsi_close[t - 1]
    THEN rsi_close[t - 1] - rsi_close[t] ELSE 0

RECURSIVE Power(_, _)
Power(b, e) == IF e = 0 THEN 1 ELSE b * Power(b, e - 1)

RECURSIVE WilderGain(_)
\* Wilder's smoothed average gain at candle t, times period^(t-1)
WilderGain(t) ==
    IF t = 1 THEN Rise(1)
    ELSE (period - 1) * WilderGain(t - 1) + Rise(t) * Power(period, t - 2)

RECURSIVE WilderLoss(_)
\* Wilder's smoothed average loss at candle t, times period^(t-1)
WilderLoss(t) ==
    IF t = 1 THEN Fall(1)
    ELSE (period - 1) * WilderLoss(t - 1) + Fall(t) * Power(period, t - 2)

\* C19: every defined RSI value equals 100 - 100 / (1 + RS), that is
\* 100 * G / (G + L), where G and L are the Wilder-smoothed (factor
\* 1/period) average gain and loss, and lies within [0, 100]; the value is
\* undefined exactly where the smoothed average loss is 0.
C19_RsiIsWilderWithinRange ==
    rsi_pc = "done" =>
        /\ Len(rsi_series) = Len(rsi_close)
        /\ \A t \in 1..Len(rsi_series) :
              /\ rsi_series[t] = NaNRat <=> WilderLoss(t) = 0
              /\ rsi_series[t] # NaNRat =>
                    /\ rsi_series[t] = Rat(100 * WilderGain(t), WilderGain(t) + WilderLoss(t))
                    /\ rsi_series[t].n >= 0
                    /\ rsi_series[t].n <= 100 * rsi_series[t].d

\* a fall then a rise with the default period: undefined at the first
\* candle, 0 after the fall, 2800/41 after the rise
C19_Witness ==
    /\ rsi_pc = "done"
    /\ rsi_close = <<2, 1, 3>> /\ period = 14
    /\ rsi_series = <<NaNRat, Rat(0, 1), Rat(2800, 41)>>

\* prices that only rise leave the RSI undefined at every candle
C19_WitnessOnlyGains ==
    /\ rsi_pc = "done"
    /\ rsi_close = <<1, 2, 3>>
    /\ \A t \in 1..3 : rsi_series[t] = NaNRat

(***************************************************************************)
(* app.py: the Market Index & Macro Event tab (with tab_macro).            *)
(***************************************************************************)

\* app.py:1723-1728
MACRO_EVENT_SERIES == <<"CPIAUCSL", "PCEPI", "PPIFIS", "FEDFUNDS">>

\* what fredapi can do: be missing, raise at one of the series, give series
\* that leave no row after dropna, or give rows
FredOutcomes ==
    {[kind |-> k, at |-> 0] : k \in {"import_error", "no_rows", "rows"}}
    \cup {[kind |-> "error", at |-> i] : i \in 1..Len(MACRO_EVENT_SERIES)}

MtabInit ==
    /\ panel_failure \in 0..Len(DISPLAY_ORDER)
    /\ fred_outcome \in FredOutcomes
    /\ mtab_pc = "call"
    /\ macro_prices = "none"
    /\ fred_calls = 0
    /\ macro_event_df = "none"
    /\ mtab_shown = <<>>

\* app.py:1593-1607: fetch_macro_data; fetch_prices_strict raises at the
\* first unusable ticker, and the handler returns two empty tables
FetchMacroData ==
    /\ mtab_pc = "call"
    /\ IF panel_failure = 0
       THEN /\ macro_prices' = "frame"
            /\ mtab_shown' = mtab_shown
       ELSE /\ macro_prices' = "empty"
            /\ mtab_shown' = Append(mtab_shown, "Error fetching macro data")
    /\ mtab_pc' = "branch"
    /\ UNCHANGED <<panel_failure, fred_outcome, fred_calls, macro_event_df>>
    /\ UNCHANGED notMtab

\* app.py:1609-1610: the warning is all the tab shows; the rest of the tab
\* is the else branch
WarnNoMacroData ==
    /\ mtab_pc = "branch"
    /\ macro_prices = "empty"
    /\ mtab_shown' = Append(mtab_shown, "Unable to fetch macro data")
    /\ mtab_pc' = "done"
    /\ UNCHANGED <<panel_failure, fred_outcome, macro_prices, fred_calls, macro_event_df>>
    /\ UNCHANGED notMtab

\* app.py:1611-1719: the panel's sections, then the header of the inflation
\* section, inside the same else branch
RenderMacroPanel ==
    /\ mtab_pc = "branch"
    /\ macro_prices = "frame"
    /\ mtab_shown' = mtab_shown \o <<"Current Values & Returns", "Market Index Chart",
                                     "Detailed Snapshot", "Macro Indicators Guide",
                                     "Inflation & Federal Reserve Indicators">>
    /\ mtab_pc' = "fred"
    /\ UNCHANGED <<panel_failure, fred_outcome, macro_prices, fred_calls, macro_event_df>>
    /\ UNCHANGED notMtab

\* app.py:1731-1764: fetch_macro_event_data; ImportError gives an empty
\* table silently, any other exception an error and an empty table
FetchMacroEventData ==
    /\ mtab_pc = "fred"
    /\ fred_calls' = fred_calls + 1
    /\ macro_event_df' = IF fred_outcome.kind = "rows" THEN "frame" ELSE "empty"
    /\ mtab_shown' = IF fred_outcome.kind = "error"
                     THEN Append(mtab_shown, "Error fetching macro event data")
                     ELSE mtab_shown
    /\ mtab_pc' = "fred_branch"
    /\ UNCHANGED <<panel_failure, fred_outcome, macro_prices>>
    /\ UNCHANGED notMtab

\* app.py:1766-1852
RenderMacroEvents ==
    /\ mtab_pc = "fred_branch"
    /\ mtab_shown' = IF macro_event_df = "empty"
                     THEN Append(mtab_shown, "Unable to fetch macro event data")
                     ELSE mtab_shown \o <<"Current Values", "Individual Indicator Charts",
                                           "Detailed Data Table">>
    /\ mtab_pc' = "done"
    /\ UNCHANGED <<panel_failure, fred_outcome, macro_prices, fred_calls, macro_event_df>>
    /\ UNCHANGED notMtab

MtabNext ==
    \/ FetchMacroData
    \/ WarnNoMacroData
    \/ RenderMacroPanel
    \/ FetchMacroEventData
    \/ RenderMacroEvents

InitMtab ==
    MtabInit /\ FetchIdle /\ StreakIdle /\ RunIdle /\ CacheIdle /\ YesIdle /\ IcsIdle
    /\ FomcIdle /\ PanelIdle /\ PolyIdle /\ DerivIdle /\ MacroIdle /\ CrossIdle /\ RsiIdle

SpecMtab == InitMtab /\ [][MtabNext]_vars

\* the entries of the tab, as a set
ShownInTab == {mtab_shown[i] : i \in 1..Len(mtab_shown)}

\* C21: a failure of the macro index panel fetch is local to that panel: in
\* the same run the Inflation & Federal Reserve Indicators section is still
\* fetched from FRED and rendered.
C21_PanelFailureIsLocal ==
    (mtab_pc = "done" /\ panel_failure # 0) =>
        /\ fred_calls = 1
        /\ macro_event_df # "none"
        /\ "Inflation & Federal Reserve Indicators" \in ShownInTab

====
